---- MODULE Spec2Model ----
(***************************************************************************)
(* CapnStegg steganography engine: the LSB codec of                        *)
(* services/steganography-engine (SteganographyService and the             *)
(* encryption functions it calls).                                         *)
(*                                                                         *)
(* Buffers are sequences of bytes (0..255); a TypeScript index i is the    *)
(* TLA+ index i+1.  Strings are sequences of code points.  An absent       *)
(* (undefined) argument is the value Undefined.                            *)
(*                                                                         *)
(* An image container (PNG) is modelled by what sharp reports and returns  *)
(* for it: width, height, channels and the channel-interleaved pixel       *)
(* bytes.  The container itself is lossless.                               *)
(*                                                                         *)
(* node:crypto is a library.  pbkdf2Sync and aes-256-gcm are modelled as   *)
(* a keyed stream cipher with a keyed checksum as tag: the key depends on  *)
(* every byte of password and salt, the tag on every bit of key, iv and    *)
(* ciphertext.  randomBytes never returns a value it returned before.      *)
(***************************************************************************)
EXTENDS Integers, Sequences, FiniteSets, TLC

\* ------------------------------------------------------------------ bounds
\* longest short message (code points) the calls draw
MaxMsgLen == 2
\* values each randomBytes pool (salts, ivs) can return
NumRand == 2
\* direct calls to encrypt in one behaviour
MaxEncrypts == 2
\* largest width / height of the geometries given to getCapacity alone
MaxDim == 12

\* ------------------------------------------------------- program constants
HEADER_SIZE == 4 + 4 + 1
MAGIC_HEADER == <<67, 65, 80, 78>>
IV_LENGTH == 16
SALT_LENGTH == 32
TAG_LENGTH == 16
KEY_LENGTH == 32

\* ------------------------------------------------------------ basic values
Undefined == <<-1>>

\* takes "" for a password
TruthyNotUndefined(s) == s # Undefined

\* JavaScript truthiness of an optional string: undefined and "" are falsy
Truthy(s) == s # Undefined /\ s # <<>>

Min(a, b) == IF a < b THEN a ELSE b
Max(a, b) == IF a > b THEN a ELSE b

Pow2(n) == 2 ^ n

\* (byte >> i) & 1
BitOf(byte, i) == (byte \div Pow2(i)) % 2

\* a ^ b on bytes
XorByte(a, b) ==
  LET x(i) == ((BitOf(a, i) + BitOf(b, i)) % 2) * Pow2(i)
  IN  x(0) + x(1) + x(2) + x(3) + x(4) + x(5) + x(6) + x(7)

RECURSIVE SumSeq(_)
SumSeq(s) == IF s = <<>> THEN 0 ELSE Head(s) + SumSeq(Tail(s))

\* Buffer.subarray(start, end): indices are clamped to the buffer
subarray(buf, start, end) ==
  SubSeq(buf, Min(start, Len(buf)) + 1, Min(end, Len(buf)))

\* ------------------------------------------------------------------ UTF-8
REPLACEMENT == 65533

IsSurrogate(cp) == cp >= 55296 /\ cp <= 57343

\* the bytes Buffer.from(str, 'utf8') writes for one code point
utf8EncodeCodePoint(cp) ==
  IF cp < 128 THEN <<cp>>
  ELSE IF cp < 2048 THEN <<192 + (cp \div 64), 128 + (cp % 64)>>
  ELSE IF IsSurrogate(cp) THEN <<239, 191, 189>>
  ELSE IF cp < 65536
       THEN <<224 + (cp \div 4096), 128 + ((cp \div 64) % 64), 128 + (cp % 64)>>
  ELSE <<240 + (cp \div 262144), 128 + ((cp \div 4096) % 64),
         128 + ((cp \div 64) % 64), 128 + (cp % 64)>>

RECURSIVE utf8Encode(_)
utf8Encode(str) ==
  IF str = <<>> THEN <<>>
  ELSE utf8EncodeCodePoint(Head(str)) \o utf8Encode(Tail(str))

IsCont(b, i, lo, hi) == i <= Len(b) /\ b[i] >= lo /\ b[i] <= hi

\* buf.toString('utf8'): ill-formed input yields U+FFFD per maximal subpart
RECURSIVE utf8DecodeFrom(_, _)
utf8DecodeFrom(b, i) ==
  IF i > Len(b) THEN <<>>
  ELSE LET c == b[i] IN
    IF c < 128 THEN <<c>> \o utf8DecodeFrom(b, i + 1)
    ELSE IF c >= 194 /\ c <= 223 THEN
      IF IsCont(b, i + 1, 128, 191)
      THEN <<(c - 192) * 64 + (b[i + 1] - 128)>> \o utf8DecodeFrom(b, i + 2)
      ELSE <<REPLACEMENT>> \o utf8DecodeFrom(b, i + 1)
    ELSE IF c >= 224 /\ c <= 239 THEN
      LET lo == IF c = 224 THEN 160 ELSE 128
          hi == IF c = 237 THEN 159 ELSE 191
      IN  IF ~IsCont(b, i + 1, lo, hi)
          THEN <<REPLACEMENT>> \o utf8DecodeFrom(b, i + 1)
          ELSE IF ~IsCont(b, i + 2, 128, 191)
          THEN <<REPLACEMENT>> \o utf8DecodeFrom(b, i + 2)
          ELSE <<(c - 224) * 4096 + (b[i + 1] - 128) * 64 + (b[i + 2] - 128)>>
               \o utf8DecodeFrom(b, i + 3)
    ELSE IF c >= 240 /\ c <= 244 THEN
      LET lo == IF c = 240 THEN 144 ELSE 128
          hi == IF c = 244 THEN 143 ELSE 191
      IN  IF ~IsCont(b, i + 1, lo, hi)
          THEN <<REPLACEMENT>> \o utf8DecodeFrom(b, i + 1)
          ELSE IF ~IsCont(b, i + 2, 128, 191)
          THEN <<REPLACEMENT>> \o utf8DecodeFrom(b, i + 2)
          ELSE IF ~IsCont(b, i + 3, 128, 191)
          THEN <<REPLACEMENT>> \o utf8DecodeFrom(b, i + 3)
          ELSE <<(c - 240) * 262144 + (b[i + 1] - 128) * 4096
                 + (b[i + 2] - 128) * 64 + (b[i + 3] - 128)>>
               \o utf8DecodeFrom(b, i + 4)
    ELSE <<REPLACEMENT>> \o utf8DecodeFrom(b, i + 1)

utf8Decode(b) == utf8DecodeFrom(b, 1)

\* String.prototype.length: UTF-16 code units
RECURSIVE jsLength(_)
jsLength(str) ==
  IF str = <<>> THEN 0
  ELSE (IF Head(str) >= 65536 THEN 2 ELSE 1) + jsLength(Tail(str))

\* a string without lone surrogates (utf8 conversion loses nothing)
WellFormed(str) == \A i \in 1..Len(str) : ~IsSurrogate(str[i])

\* ------------------------------------------------- results of a call
\* a call either returns a value or throws; the error kinds are the thrown
\* messages: CapacityExceeded 'Message too large...', NoHiddenData 'No hidden
\* message found or invalid format', CorruptData 'Invalid payload length -
\* corrupted data', PasswordRequired 'Password required to decode encrypted
\* message', ImageTooSmall 'Image too small to hold the data',
\* AuthenticationFailed / InvalidIV / InvalidTagLength thrown by node:crypto,
\* RangeError thrown by Buffer.readUInt32BE / readUInt8
Throw(kind) == [ok |-> FALSE, error |-> kind]

\* ------------------------------------------------------------- sharp I/O
\* image.ensureAlpha().raw().toBuffer(): RGBA bytes, opaque alpha added to a
\* 3-channel image
ensureAlphaRaw(img) ==
  IF img.channels = 4 THEN img.data
  ELSE [i \in 1..(img.width * img.height * 4) |->
          IF (i - 1) % 4 = 3 THEN 255
          ELSE img.data[3 * ((i - 1) \div 4) + ((i - 1) % 4) + 1]]

\* sharp(raw, {raw: {width, height, channels: 4}}).png().toBuffer()
pngFromRaw(raw, width, height) ==
  [width |-> width, height |-> height, channels |-> 4, data |-> raw]

\* -------------------------------------------------------------- getCapacity
getCapacityMissingMax(width, height, channels) ==
  LET totalPixels == width * height
      usableChannels == Min(channels, 3)
      totalCapacityBits == totalPixels * usableChannels
      totalCapacity == totalCapacityBits \div 8
      availableBytes == totalCapacity - HEADER_SIZE
  IN  [totalCapacity |-> totalCapacity, availableBytes |-> availableBytes]

getCapacityOf(width, height, channels) ==
  LET totalPixels == width * height
      usableChannels == Min(channels, 3)
      totalCapacityBits == totalPixels * usableChannels
      totalCapacity == totalCapacityBits \div 8
      availableBytes == totalCapacity - HEADER_SIZE
  IN  [totalCapacity |-> totalCapacity,
       availableBytes |-> Max(0, availableBytes)]

getCapacity(img) == getCapacityOf(img.width, img.height, img.channels)

\* ------------------------------------------------------ bytes <-> bits
bytesToBitsLsbFirst(data) ==
  [k \in 1..(8 * Len(data)) |-> BitOf(data[((k - 1) \div 8) + 1], (k - 1) % 8)]

bytesToBits(data) ==
  [k \in 1..(8 * Len(data)) |->
     BitOf(data[((k - 1) \div 8) + 1], 7 - ((k - 1) % 8))]

\* the inner loop of bitsToBytes: byte = (byte << 1) | bits[i + j]
RECURSIVE bitsToByte(_, _, _, _)
bitsToByte(bits, i, j, byte) ==
  IF j < 8 /\ i + j < Len(bits)
  THEN bitsToByte(bits, i, j + 1, 2 * byte + bits[i + j + 1])
  ELSE byte

bitsToBytes(bits) ==
  [n \in 1..((Len(bits) + 7) \div 8) |-> bitsToByte(bits, 8 * (n - 1), 0, 0)]

\* ---------------------------------------------------------------- embedData
\* one iteration of the for loop of embedData at index i; st holds the
\* buffer and bitIndex.  Once bitIndex reaches dataBits.length the loop has
\* ended and the remaining indices change nothing.
embedStepAlpha(st, dataBits, i) ==
  IF st.bitIndex < Len(dataBits)
  THEN [result |-> [st.result EXCEPT
                      ![i + 1] = (@ - (@ % 2)) + dataBits[st.bitIndex + 1]],
        bitIndex |-> st.bitIndex + 1]
  ELSE st

embedStepClobber(st, dataBits, i) ==
  IF st.bitIndex < Len(dataBits)
  THEN IF i % 4 = 3
       THEN st
       ELSE [result |-> [st.result EXCEPT ![i + 1] = dataBits[st.bitIndex + 1]],
             bitIndex |-> st.bitIndex + 1]
  ELSE st

embedStepOr(st, dataBits, i) ==
  IF st.bitIndex < Len(dataBits)
  THEN IF i % 4 = 3
       THEN st
       ELSE [result |-> [st.result EXCEPT
                           ![i + 1] = IF @ % 2 = 1 THEN @
                                      ELSE @ + dataBits[st.bitIndex + 1]],
             bitIndex |-> st.bitIndex + 1]
  ELSE st

embedStep(st, dataBits, i) ==
  IF st.bitIndex < Len(dataBits)
  THEN IF i % 4 = 3
       THEN st
       ELSE [result |-> [st.result EXCEPT
                           ![i + 1] = (@ - (@ % 2)) + dataBits[st.bitIndex + 1]],
             bitIndex |-> st.bitIndex + 1]
  ELSE st

\* the iterations lo <= i < hi of the for loop of embedData, in order
RECURSIVE embedLoop(_, _, _, _)
embedLoop(st, dataBits, lo, hi) ==
  IF hi <= lo THEN st
  ELSE IF hi = lo + 1 THEN embedStep(st, dataBits, lo)
  ELSE LET mid == (lo + hi) \div 2
           left == embedLoop(st, dataBits, lo, mid)
       IN  IF left.bitIndex < Len(dataBits)
           THEN embedLoop(left, dataBits, mid, hi)
           ELSE left

\* writes to the argument itself instead of the copy Buffer.from makes
embedDataInPlace(imageBuffer, data) ==
  LET dataBits == bytesToBits(data)
      loop == embedLoop([result |-> imageBuffer, bitIndex |-> 0], dataBits,
                        0, Len(imageBuffer))
  IN  IF loop.bitIndex < Len(dataBits)
      THEN [ok |-> FALSE, error |-> "ImageTooSmall", imageBuffer |-> loop.result]
      ELSE [ok |-> TRUE, buffer |-> loop.result, imageBuffer |-> loop.result]

\* returns the buffer as far as it was written when the bits do not fit
embedDataNoThrow(imageBuffer, data) ==
  LET dataBits == bytesToBits(data)
      loop == embedLoop([result |-> imageBuffer, bitIndex |-> 0], dataBits,
                        0, Len(imageBuffer))
  IN  [ok |-> TRUE, buffer |-> loop.result, imageBuffer |-> imageBuffer]

\* embedData(imageBuffer, data): result = Buffer.from(imageBuffer) is a copy,
\* the loop writes to result only.  The outcome carries, next to the buffer
\* returned or the error thrown, the argument imageBuffer as the call leaves
\* it.
embedData(imageBuffer, data) ==
  LET dataBits == bytesToBits(data)
      loop == embedLoop([result |-> imageBuffer, bitIndex |-> 0], dataBits,
                        0, Len(imageBuffer))
  IN  IF loop.bitIndex < Len(dataBits)
      THEN [ok |-> FALSE, error |-> "ImageTooSmall", imageBuffer |-> imageBuffer]
      ELSE [ok |-> TRUE, buffer |-> loop.result, imageBuffer |-> imageBuffer]

\* -------------------------------------------------------------- extractData
\* one iteration of the for loop of extractData at index i; st holds the
\* bits pushed and bitIndex.  Once totalBits + offsetBits bits were pushed
\* the loop has ended.
extractStep(st, imageBuffer, totalBits, offsetBits, i) ==
  IF Len(st.bits) < totalBits + offsetBits
  THEN IF i % 4 = 3
       THEN st
       ELSE [bits |-> IF st.bitIndex >= offsetBits
                      THEN Append(st.bits, imageBuffer[i + 1] % 2)
                      ELSE st.bits,
             bitIndex |-> st.bitIndex + 1]
  ELSE st

\* the iterations lo <= i < hi of the for loop of extractData, in order
RECURSIVE extractLoop(_, _, _, _, _, _)
extractLoop(st, imageBuffer, totalBits, offsetBits, lo, hi) ==
  IF hi <= lo THEN st
  ELSE IF hi = lo + 1 THEN extractStep(st, imageBuffer, totalBits, offsetBits, lo)
  ELSE LET mid == (lo + hi) \div 2
           left == extractLoop(st, imageBuffer, totalBits, offsetBits, lo, mid)
       IN  IF Len(left.bits) < totalBits + offsetBits
           THEN extractLoop(left, imageBuffer, totalBits, offsetBits, mid, hi)
           ELSE left

extractDataNoOffset(imageBuffer, length, offset) ==
  LET totalBits == length * 8
      bits == extractLoop([bits |-> <<>>, bitIndex |-> 0], imageBuffer,
                          totalBits, 0, 0, Len(imageBuffer)).bits
  IN  bitsToBytes(SubSeq(bits, 1, Min(totalBits, Len(bits))))

extractData(imageBuffer, length, offset) ==
  LET totalBits == length * 8
      offsetBits == offset * 8
      bits == extractLoop([bits |-> <<>>, bitIndex |-> 0], imageBuffer,
                          totalBits, offsetBits, 0, Len(imageBuffer)).bits
  IN  bitsToBytes(SubSeq(bits, 1, Min(totalBits, Len(bits))))

\* --------------------------------------------------------------- encryption
\* sum of the bytes of buf at indices congruent to j modulo m (1-based j)
RECURSIVE SumEvery(_, _, _)
SumEvery(buf, j, m) ==
  IF j > Len(buf) THEN 0 ELSE buf[j] + SumEvery(buf, j + m, m)

\* crypto.pbkdf2Sync(password, salt, ITERATIONS, KEY_LENGTH, 'sha256'):
\* 32 key bytes; a change of the password, or of one bit of the salt, changes
\* the key
deriveKey(password, salt) ==
  LET pw == utf8Encode(password)
      p == SumSeq(pw) + 31 * Len(pw) + 17 * Len(salt)
      other(i) == IF i <= 16 THEN i + 16 ELSE i - 16
  IN  [i \in 1..KEY_LENGTH |->
         (p + SumEvery(salt, i, KEY_LENGTH)
          + 3 * SumEvery(salt, other(i), KEY_LENGTH) + i) % 256]

\* the GCM key stream byte for plaintext byte i
keyStream(key, iv, i) ==
  (key[((i - 1) % KEY_LENGTH) + 1] + SumEvery(iv, ((i - 1) % 16) + 1, 16) + i) % 256

\* cipher.update / decipher.update: counter mode, the same in both directions
gcmCrypt(key, iv, data) ==
  [i \in 1..Len(data) |-> XorByte(data[i], keyStream(key, iv, i))]

\* the 16-byte GCM authentication tag of a ciphertext: a change of the key
\* by a password or by one salt bit, or of one bit of iv or ciphertext,
\* changes the tag
gcmTag(key, iv, ct) ==
  [j \in 1..TAG_LENGTH |->
     (key[j] + 2 * key[j + 16] + 5 * SumEvery(iv, j, 16) + 7 * SumEvery(ct, j, 16)
      + 11 * Len(iv) + 13 * Len(ct)) % 256]

\* tag lengths node accepts in decipher.setAuthTag for aes-256-gcm
ValidGcmTagLength(n) == n \in {4, 8, 12, 13, 14, 15, 16}

\* encrypt(message, password); salt and iv are the two randomBytes draws
encryptStaticIv(message, password, salt, iv) ==
  LET zsalt == [i \in 1..SALT_LENGTH |-> 0]
      ziv == [i \in 1..IV_LENGTH |-> 0]
      key == deriveKey(password, zsalt)
      encrypted == gcmCrypt(key, ziv, utf8Encode(message))
      tag == gcmTag(key, ziv, encrypted)
  IN  zsalt \o ziv \o tag \o encrypted

encryptTagLast(message, password, salt, iv) ==
  LET key == deriveKey(password, salt)
      encrypted == gcmCrypt(key, iv, utf8Encode(message))
      tag == gcmTag(key, iv, encrypted)
  IN  salt \o iv \o encrypted \o tag

encrypt(message, password, salt, iv) ==
  LET key == deriveKey(password, salt)
      encrypted == gcmCrypt(key, iv, utf8Encode(message))
      tag == gcmTag(key, iv, encrypted)
  IN  salt \o iv \o tag \o encrypted

\* decrypt(encryptedData, password)
decryptNoVerify(encryptedData, password) ==
  LET salt == subarray(encryptedData, 0, SALT_LENGTH)
      iv == subarray(encryptedData, SALT_LENGTH, SALT_LENGTH + IV_LENGTH)
      encrypted == subarray(encryptedData, SALT_LENGTH + IV_LENGTH + TAG_LENGTH,
                            Len(encryptedData))
      key == deriveKey(password, salt)
  IN  [ok |-> TRUE, message |-> utf8Decode(gcmCrypt(key, iv, encrypted))]

decryptTagPrefix(encryptedData, password) ==
  LET salt == subarray(encryptedData, 0, SALT_LENGTH)
      iv == subarray(encryptedData, SALT_LENGTH, SALT_LENGTH + IV_LENGTH)
      tag == subarray(encryptedData, SALT_LENGTH + IV_LENGTH,
                      SALT_LENGTH + IV_LENGTH + 4)
      encrypted == subarray(encryptedData, SALT_LENGTH + IV_LENGTH + TAG_LENGTH,
                            Len(encryptedData))
      key == deriveKey(password, salt)
  IN  IF Len(iv) = 0 THEN Throw("InvalidIV")
      ELSE IF ~ValidGcmTagLength(Len(tag)) THEN Throw("InvalidTagLength")
      ELSE IF tag # SubSeq(gcmTag(key, iv, encrypted), 1, Len(tag))
      THEN Throw("AuthenticationFailed")
      ELSE [ok |-> TRUE, message |-> utf8Decode(gcmCrypt(key, iv, encrypted))]

decrypt(encryptedData, password) ==
  LET salt == subarray(encryptedData, 0, SALT_LENGTH)
      iv == subarray(encryptedData, SALT_LENGTH, SALT_LENGTH + IV_LENGTH)
      tag == subarray(encryptedData, SALT_LENGTH + IV_LENGTH,
                      SALT_LENGTH + IV_LENGTH + TAG_LENGTH)
      encrypted == subarray(encryptedData, SALT_LENGTH + IV_LENGTH + TAG_LENGTH,
                            Len(encryptedData))
      key == deriveKey(password, salt)
  IN  IF Len(iv) = 0 THEN Throw("InvalidIV")
      ELSE IF ~ValidGcmTagLength(Len(tag)) THEN Throw("InvalidTagLength")
      ELSE IF tag # SubSeq(gcmTag(key, iv, encrypted), 1, Len(tag))
      THEN Throw("AuthenticationFailed")
      ELSE [ok |-> TRUE, message |-> utf8Decode(gcmCrypt(key, iv, encrypted))]

getEncryptionOverhead == SALT_LENGTH + IV_LENGTH + TAG_LENGTH

\* ------------------------------------------------------ SteganographyService
writeUInt32LE(n) ==
  <<n % 256, (n \div 256) % 256, (n \div 65536) % 256, (n \div 16777216) % 256>>

writeUInt32BE(n) ==
  <<(n \div 16777216) % 256, (n \div 65536) % 256, (n \div 256) % 256, n % 256>>

\* buf.readUInt32BE(offset).  TLC integers are 32-bit signed: a value of
\* 2^31 or more is represented by 2^31 - 1; its only use, the comparison with
\* availableBytes, does not tell the two apart.
readUInt32BE(buf, offset) ==
  IF buf[offset + 1] >= 128 THEN 2147483647
  ELSE buf[offset + 1] * 16777216 + buf[offset + 2] * 65536
       + buf[offset + 3] * 256 + buf[offset + 4]

\* the capacity check of encode: payload.length > capacity.availableBytes
tooLargeOffByOne(payloadLength, availableBytes) == payloadLength >= availableBytes

tooLarge(payloadLength, availableBytes) == payloadLength > availableBytes

\* compares the plaintext's length with the capacity, not the payload's
encodePlainLengthChecked(img, message, password, salt, iv) ==
  LET isEncrypted == Truthy(password)
      payload == IF Truthy(password)
                 THEN encrypt(message, password, salt, iv)
                 ELSE utf8Encode(message)
      capacity == getCapacity(img)
      header == MAGIC_HEADER \o writeUInt32BE(Len(payload))
                \o <<IF isEncrypted THEN 1 ELSE 0>>
      dataToHide == header \o payload
      rawBuffer == ensureAlphaRaw(img)
      modified == embedData(rawBuffer, dataToHide)
  IN  IF tooLarge(Len(utf8Encode(message)), capacity.availableBytes)
      THEN [ok |-> FALSE, error |-> "CapacityExceeded",
            required |-> Len(utf8Encode(message)),
            available |-> capacity.availableBytes]
      ELSE IF ~modified.ok
      THEN [ok |-> FALSE, error |-> modified.error,
            rawBuffer |-> modified.imageBuffer]
      ELSE [ok |-> TRUE,
            imageBuffer |-> pngFromRaw(modified.buffer, img.width, img.height),
            bytesUsed |-> Len(dataToHide),
            capacity |-> capacity.availableBytes,
            rawBuffer |-> modified.imageBuffer]

\* encode(imageBuffer, message, password); salt and iv are what randomBytes
\* returns should encrypt be called.  rawBuffer of the outcome is the raw
\* pixel buffer handed to embedData, as that call leaves it.
encode(img, message, password, salt, iv) ==
  LET isEncrypted == Truthy(password)
      payload == IF Truthy(password)
                 THEN encrypt(message, password, salt, iv)
                 ELSE utf8Encode(message)
      capacity == getCapacity(img)
      header == MAGIC_HEADER \o writeUInt32BE(Len(payload))
                \o <<IF isEncrypted THEN 1 ELSE 0>>
      dataToHide == header \o payload
      rawBuffer == ensureAlphaRaw(img)
      modified == embedData(rawBuffer, dataToHide)
  IN  IF tooLarge(Len(payload), capacity.availableBytes)
      THEN [ok |-> FALSE, error |-> "CapacityExceeded",
            required |-> Len(payload), available |-> capacity.availableBytes]
      ELSE IF ~modified.ok
      THEN [ok |-> FALSE, error |-> modified.error,
            rawBuffer |-> modified.imageBuffer]
      ELSE [ok |-> TRUE,
            imageBuffer |-> pngFromRaw(modified.buffer, img.width, img.height),
            bytesUsed |-> Len(dataToHide),
            capacity |-> capacity.availableBytes,
            rawBuffer |-> modified.imageBuffer]

\* the magic check of decode: header.subarray(0, 4).equals(MAGIC_HEADER)
magicMatchesPrefix(header) == subarray(header, 0, 3) = SubSeq(MAGIC_HEADER, 1, 3)

magicMatches(header) == subarray(header, 0, 4) = MAGIC_HEADER

\* the flag read of decode: header.readUInt8(8) === 1
flagEncryptedWrongOffset(header) == header[8] = 1

flagEncrypted(header) == header[9] = 1

\* checks the declared length against totalCapacity, the header forgotten
decodeLengthVsTotal(img, password) ==
  LET rawBuffer == ensureAlphaRaw(img)
      header == extractData(rawBuffer, HEADER_SIZE, 0)
      payloadLength == readUInt32BE(header, 4)
      isEncrypted == flagEncrypted(header)
      capacity == getCapacity(img)
      payload == extractData(rawBuffer, payloadLength, HEADER_SIZE)
      decrypted == decrypt(payload, password)
      message == IF isEncrypted THEN decrypted.message ELSE utf8Decode(payload)
  IN  IF ~magicMatches(header) THEN Throw("NoHiddenData")
      ELSE IF Len(header) < HEADER_SIZE THEN Throw("RangeError")
      ELSE IF payloadLength > capacity.totalCapacity THEN Throw("CorruptData")
      ELSE IF isEncrypted /\ ~Truthy(password) THEN Throw("PasswordRequired")
      ELSE IF isEncrypted /\ ~decrypted.ok THEN decrypted
      ELSE [ok |-> TRUE, message |-> message,
            metadata |-> [length |-> jsLength(message),
                          encrypted |-> isEncrypted]]

\* decode(imageBuffer, password)
decode(img, password) ==
  LET rawBuffer == ensureAlphaRaw(img)
      header == extractData(rawBuffer, HEADER_SIZE, 0)
      payloadLength == readUInt32BE(header, 4)
      isEncrypted == flagEncrypted(header)
      capacity == getCapacity(img)
      payload == extractData(rawBuffer, payloadLength, HEADER_SIZE)
      decrypted == decrypt(payload, password)
      message == IF isEncrypted THEN decrypted.message ELSE utf8Decode(payload)
  IN  IF ~magicMatches(header) THEN Throw("NoHiddenData")
      ELSE IF Len(header) < HEADER_SIZE THEN Throw("RangeError")
      ELSE IF payloadLength > capacity.availableBytes THEN Throw("CorruptData")
      ELSE IF isEncrypted /\ ~Truthy(password) THEN Throw("PasswordRequired")
      ELSE IF isEncrypted /\ ~decrypted.ok THEN decrypted
      ELSE [ok |-> TRUE, message |-> message,
            metadata |-> [length |-> jsLength(message),
                          encrypted |-> isEncrypted]]

\* ------------------------------------------------------------------ inputs
\* code points of the messages: "A", e-acute (2 bytes), a lone surrogate
Alphabet == {65, 233, 55357}

Strings(n) == UNION {[1..k -> Alphabet] : k \in 0..n}

Repeat(c, n) == [i \in 1..n |-> c]

\* short messages, and the 28- and 29-byte messages of the 10x10 scenario
Messages == Strings(MaxMsgLen) \cup {Repeat(65, 28), Repeat(65, 29)}

\* optional password arguments: absent, "", "a", "b"
Passwords == {Undefined, <<>>, <<97>>, <<98>>}

\* what crypto.randomBytes(32) / randomBytes(16) can return
SaltValue(k) == [i \in 1..SALT_LENGTH |-> (41 * k + 3 * i) % 256]
IvValue(k) == [i \in 1..IV_LENGTH |-> (97 * k + 5 * i + 128) % 256]
SaltPool == {SaltValue(k) : k \in 1..NumRand}
IvPool == {IvValue(k) : k \in 1..NumRand}

\* the LSBs a pattern puts on the usable channels, in scan order
PatternFrame(pattern) ==
  IF pattern = "capn" THEN bytesToBits(MAGIC_HEADER \o <<0, 0, 0, 1, 0, 65>>)
  ELSE IF pattern = "capx" THEN bytesToBits(<<67, 65, 80, 79, 0, 0, 0, 1, 0, 65>>)
  ELSE IF pattern = "huge" THEN bytesToBits(MAGIC_HEADER \o <<255, 255, 255, 255, 1>>)
  ELSE IF pattern = "xhuge" THEN bytesToBits(<<67, 65, 80, 79, 255, 255, 255, 255, 1>>)
  ELSE IF pattern = "long" THEN bytesToBits(MAGIC_HEADER \o <<0, 0, 0, 2, 0, 65>>)
  ELSE IF pattern = "short" THEN bytesToBits(MAGIC_HEADER \o <<0, 0, 0, 1, 1, 65>>)
  ELSE IF pattern = "empty" THEN bytesToBits(MAGIC_HEADER \o <<0, 0, 0, 0, 0>>)
  ELSE IF pattern = "flag2" THEN bytesToBits(MAGIC_HEADER \o <<0, 0, 0, 1, 2, 65>>)
  ELSE <<>>

\* the byte of channel c of pixel p
PatternByte(pattern, p, c) ==
  IF pattern = "flat" THEN <<255, 128, 64, 7>>[c + 1]
  ELSE IF pattern = "noise" THEN (37 * (4 * p + c) + 11) % 256
  ELSE IF c = 3 THEN 254
  ELSE LET k == 3 * p + c
           bits == PatternFrame(pattern)
       IN  128 + (IF k < Len(bits) THEN bits[k + 1] ELSE 0)

Picture(width, height, channels, pattern) ==
  [width |-> width, height |-> height, channels |-> channels,
   data |-> [i \in 1..(width * height * channels) |->
               PatternByte(pattern, (i - 1) \div channels, (i - 1) % channels)]]

\* carrier images that were never encoded
Carriers ==
  { Picture(1, 1, 3, "flat"),      \*   3 usable bits
    Picture(23, 1, 4, "noise"),    \*  69 usable bits
    Picture(7, 3, 3, "capn"),      \*  63 usable bits
    Picture(23, 1, 3, "empty"),    \*  69 usable bits
    Picture(4, 4, 3, "flat"),      \*  48 usable bits
    Picture(4, 6, 3, "flat"),      \*  72 usable bits, availableBytes 0
    Picture(9, 3, 3, "long"),      \*  81 usable bits, availableBytes 1
    Picture(9, 3, 4, "short"),
    Picture(9, 3, 3, "flag2"),
    Picture(5, 6, 3, "xhuge"),     \*  90 usable bits, availableBytes 2
    Picture(9, 3, 4, "capn"),      \*  81 usable bits, availableBytes 1
    Picture(9, 3, 3, "capx"),
    Picture(5, 6, 4, "huge"),      \*  90 usable bits, availableBytes 2
    Picture(5, 6, 3, "noise"),
    Picture(10, 10, 3, "flat"),    \* 300 usable bits, availableBytes 28
    Picture(13, 15, 3, "flat"),    \* 585 usable bits, availableBytes 64
    Picture(11, 18, 4, "noise"),   \* 594 usable bits, availableBytes 65
    Picture(20, 10, 3, "flat") }   \* 600 usable bits, availableBytes 66

\* usable bits of an image: one per R, G, B channel
UsableBits(img) == img.width * img.height * Min(img.channels, 3)

\* the LSB at scan position k (0-based) of an image
ScanIndex(img, k) == img.channels * (k \div 3) + (k % 3) + 1
ScanBit(img, k) == img.data[ScanIndex(img, k)] % 2
ScanBits(img, n) == [k \in 1..n |-> ScanBit(img, k - 1)]

\* ------------------------------------------------------------------- state
VARIABLES
  image,    \* the image file at hand
  hidden,   \* what encode last embedded in image, and the bits flipped since
  call,     \* the last call: operation, arguments and outcome
  blobs,    \* the buffers returned by the direct calls to encrypt, in order
  drawn     \* the values crypto.randomBytes has returned so far

vars == <<image, hidden, call, blobs, drawn>>

NoCall == [op |-> "none"]
Nothing == [present |-> FALSE]

\* ----------------------------------------------------------------- actions
\* a call steganographyService.encode(image, message, password); a successful
\* call returns the new image file, which replaces the one at hand
EncodeWith(message, password, salt, iv) ==
  LET result == encode(image, message, password, salt, iv)
  IN  /\ call' = [op |-> "encode", input |-> image, message |-> message,
                  password |-> password, result |-> result]
      /\ image' = IF result.ok THEN result.imageBuffer ELSE image
      /\ hidden' = IF result.ok
                   THEN [present |-> TRUE, message |-> message,
                         password |-> password, salt |-> salt, iv |-> iv,
                         frameBits |-> 8 * result.bytesUsed, flipped |-> {}]
                   ELSE hidden
      /\ UNCHANGED blobs

Encode(message, password) ==
  /\ call = NoCall
  /\ IF Truthy(password)
     THEN \E salt \in SaltPool \ drawn, iv \in IvPool \ drawn :
            /\ EncodeWith(message, password, salt, iv)
            /\ drawn' = drawn \cup {salt, iv}
     ELSE /\ EncodeWith(message, password, <<>>, <<>>)
          /\ UNCHANGED drawn

\* a call steganographyService.decode(image, password)
Decode(password) ==
  /\ call.op # "decode"
  /\ call' = [op |-> "decode", input |-> image, password |-> password,
              result |-> decode(image, password)]
  /\ UNCHANGED <<image, hidden, blobs, drawn>>

\* someone flips one embedded bit: the LSB at scan position k of the encoded
\* image, k within the frame
FlipBit(k) ==
  /\ call.op = "encode"
  /\ hidden.present
  /\ hidden.flipped = {}
  /\ k < hidden.frameBits
  /\ image' = [image EXCEPT !.data[ScanIndex(image, k)] =
                 IF @ % 2 = 0 THEN @ + 1 ELSE @ - 1]
  /\ hidden' = [hidden EXCEPT !.flipped = {k}]
  /\ UNCHANGED <<call, blobs, drawn>>

\* a call getCapacity(imageBuffer) on an image of the given geometry
GetCapacity(width, height, channels) ==
  /\ call' = [op |-> "getCapacity", width |-> width, height |-> height,
              channels |-> channels,
              result |-> getCapacityOf(width, height, channels)]
  /\ UNCHANGED <<image, hidden, blobs, drawn>>

\* a direct call encrypt(message, password)
Encrypt(message, password) ==
  /\ Len(blobs) < MaxEncrypts
  /\ call.op \in {"none", "encrypt"}
  /\ \E salt \in SaltPool \ drawn, iv \in IvPool \ drawn :
       LET data == encrypt(message, password, salt, iv)
           blob == [message |-> message, password |-> password,
                    salt |-> salt, iv |-> iv, data |-> data]
       IN  /\ blobs' = Append(blobs, blob)
           /\ call' = [op |-> "encrypt", message |-> message,
                       password |-> password, result |-> data]
           /\ drawn' = drawn \cup {salt, iv}
  /\ UNCHANGED <<image, hidden>>

\* a direct call decrypt(encryptedData, password) on the buffer the last
\* call to encrypt returned
Decrypt(password) ==
  /\ call.op = "encrypt"
  /\ call' = [op |-> "decrypt", blob |-> blobs[Len(blobs)],
              password |-> password,
              result |-> decrypt(blobs[Len(blobs)].data, password)]
  /\ UNCHANGED <<image, hidden, blobs, drawn>>

\* ---------------------------------------------------------- specifications
\* Spec: one encode and the decodes that follow, on every carrier
Init ==
  /\ image \in Carriers
  /\ hidden = Nothing
  /\ call = NoCall
  /\ blobs = <<>>
  /\ drawn = {}

Next ==
  \/ \E message \in Messages, password \in Passwords : Encode(message, password)
  \/ \E password \in Passwords : Decode(password)

Spec == Init /\ [][Next]_vars

\* SpecTamper: an encoded image has one embedded bit flipped before decode
TamperCarrier == Picture(20, 10, 3, "flat")
TamperMessages == {<<65>>}
TamperPasswords == {Undefined, <<97>>, <<98>>}

InitTamper ==
  /\ image = TamperCarrier
  /\ hidden = Nothing
  /\ call = NoCall
  /\ blobs = <<>>
  /\ drawn = {}

NextTamper ==
  \/ \E message \in TamperMessages, password \in {Undefined, <<97>>} :
       Encode(message, password)
  \/ \E k \in 0..(UsableBits(image) - 1) : FlipBit(k)
  \/ \E password \in TamperPasswords : Decode(password)

SpecTamper == InitTamper /\ [][NextTamper]_vars

\* SpecCapacity: getCapacity on every geometry up to MaxDim x MaxDim
InitCapacity ==
  /\ image = Picture(1, 1, 3, "flat")
  /\ hidden = Nothing
  /\ call = NoCall
  /\ blobs = <<>>
  /\ drawn = {}

NextCapacity ==
  \E width \in 1..MaxDim, height \in 1..MaxDim, channels \in 1..4 :
    GetCapacity(width, height, channels)

SpecCapacity == InitCapacity /\ [][NextCapacity]_vars

\* SpecCrypto: direct calls to encrypt and decrypt
CryptoPasswords == {<<>>, <<97>>, <<98>>}

NextCrypto ==
  \/ \E message \in Messages, password \in CryptoPasswords :
       Encrypt(message, password)
  \/ \E password \in CryptoPasswords : Decrypt(password)

SpecCrypto == InitCapacity /\ [][NextCrypto]_vars

\* -------------------------------------------------------------- properties
\* the bytes encode embeds after the header for a message and a password
EmbeddedLength(message, password) ==
  Len(utf8Encode(message))
  + (IF Truthy(password) THEN SALT_LENGTH + IV_LENGTH + TAG_LENGTH ELSE 0)

\* the last call was a decode, with the password of the encode that produced
\* the untouched image at hand
DecodedWithSamePassword ==
  /\ call.op = "decode"
  /\ hidden.present
  /\ hidden.flipped = {}
  /\ call.password = hidden.password

\* decode returned the message that was encoded: the same payload bytes, the
\* same string when the string has no lone surrogate, and the encrypted flag
\* set exactly when a (non-empty) password was given to encode
ReturnsHidden ==
  /\ call.result.ok
  /\ utf8Encode(call.result.message) = utf8Encode(hidden.message)
  /\ WellFormed(hidden.message) => call.result.message = hidden.message
  /\ call.result.metadata.encrypted = Truthy(hidden.password)

\* C1 as stated: every payload of at most availableBytes bytes, with any
\* optional password, on any carrier (also one with availableBytes 0), is
\* encoded successfully and decoded back with the same password.
C1_RoundTripAsStated ==
  /\ (/\ call.op = "encode"
      /\ Len(utf8Encode(call.message)) <= getCapacity(call.input).availableBytes)
     => call.result.ok
  /\ DecodedWithSamePassword => ReturnsHidden

\* C1 amended: on a carrier with at least 72 usable bits, every payload
\* whose embedded bytes (the payload itself, or the payload plus the
\* salt+iv+tag overhead when a password is given) number at most
\* availableBytes is encoded successfully; and decode with the same password
\* of any image encode returned gives back the payload, encrypted flag set
\* exactly when a non-empty password was given.
C1_RoundTrip ==
  /\ (/\ call.op = "encode"
      /\ UsableBits(call.input) >= 8 * HEADER_SIZE
      /\ EmbeddedLength(call.message, call.password)
           <= getCapacity(call.input).availableBytes)
     => call.result.ok
  /\ DecodedWithSamePassword => ReturnsHidden

\* C1 witness: an encrypted, non-empty message was decoded back
C1_Witness ==
  /\ DecodedWithSamePassword
  /\ Truthy(hidden.password)
  /\ hidden.message # <<>>
  /\ call.result.ok
  /\ call.result.message = hidden.message

\* the last call was an encode without a password
EncodedPlain == call.op = "encode" /\ ~Truthy(call.password)

CapacityBoundary ==
  LET len == Len(utf8Encode(call.message))
      available == getCapacity(call.input).availableBytes
  IN  /\ len = available => call.result.ok
      /\ len > available =>
           /\ call.result = [ok |-> FALSE, error |-> "CapacityExceeded",
                             required |-> len, available |-> available]
           /\ image = call.input

\* C2 as stated: without a password, on every carrier, a payload of exactly
\* availableBytes bytes is encoded and every longer payload fails with
\* CapacityExceeded{required: length, available: availableBytes}, no image
\* being returned.
C2_CapacityBoundaryAsStated == EncodedPlain => CapacityBoundary

\* C2 amended: the same, on every carrier with at least 72 usable bits; the
\* CapacityExceeded half holds on every carrier.
C2_CapacityBoundary ==
  EncodedPlain =>
    LET len == Len(utf8Encode(call.message))
        available == getCapacity(call.input).availableBytes
    IN  /\ UsableBits(call.input) >= 8 * HEADER_SIZE => CapacityBoundary
        /\ len > available =>
             /\ call.result = [ok |-> FALSE, error |-> "CapacityExceeded",
                               required |-> len, available |-> available]
             /\ image = call.input

\* C2 witness: 29 bytes on the 10x10 RGB carrier: required 29, available 28
C2_Witness ==
  /\ EncodedPlain
  /\ call.input.width = 10 /\ call.input.height = 10
  /\ call.result = [ok |-> FALSE, error |-> "CapacityExceeded",
                    required |-> 29, available |-> 28]

\* C3: getCapacity reports availableBytes = max(0, floor((totalBits - 72)/8))
\* with totalBits = width*height*min(channels,3); it is never negative, a
\* fourth channel changes nothing, and 10x10 RGB gives 300 bits (37 bytes in
\* all) and 28 available bytes.
C3_CapacityFormula ==
  call.op = "getCapacity" =>
    LET totalBits == call.width * call.height * Min(call.channels, 3)
        floorDiv == IF totalBits >= 72 THEN (totalBits - 72) \div 8
                    ELSE -((72 - totalBits + 7) \div 8)
    IN  /\ call.result.availableBytes = Max(0, floorDiv)
        /\ call.result.availableBytes >= 0
        /\ call.channels = 4 =>
             call.result = getCapacityOf(call.width, call.height, 3)
        /\ (call.width = 10 /\ call.height = 10 /\ call.channels = 3) =>
             (totalBits = 300 /\ call.result.totalCapacity = 37
              /\ call.result.availableBytes = 28)

\* C3 witness: getCapacity was called on a 10x10 RGB image
C3_Witness ==
  /\ call.op = "getCapacity"
  /\ call.width = 10 /\ call.height = 10 /\ call.channels = 3
  /\ call.result.availableBytes = 28

\* C4: decode fails with NoHiddenData whenever the first 32 LSBs in scan
\* order are not the bits of the magic bytes 43 41 50 4E (or the image has
\* fewer than 32 usable bits), whatever follows and whatever the password.
C4_NoHiddenData ==
  (/\ call.op = "decode"
   /\ \/ UsableBits(call.input) < 32
      \/ ScanBits(call.input, 32) # bytesToBits(MAGIC_HEADER))
  => call.result = Throw("NoHiddenData")

\* C4 witness: decode with a password of a carrier whose first 32 LSBs
\* differ from the magic in the last bit only
C4_Witness ==
  /\ call.op = "decode"
  /\ Truthy(call.password)
  /\ UsableBits(call.input) >= 32
  /\ ScanBits(call.input, 31) = SubSeq(bytesToBits(MAGIC_HEADER), 1, 31)
  /\ ScanBit(call.input, 31) = 1
  /\ call.result = Throw("NoHiddenData")

\* C5: decode without a password (absent or empty) of an image that encode
\* produced with a password fails with PasswordRequired.
C5_PasswordRequired ==
  (/\ call.op = "decode"
   /\ hidden.present
   /\ hidden.flipped = {}
   /\ Truthy(hidden.password)
   /\ ~Truthy(call.password))
  => call.result = Throw("PasswordRequired")

\* C5 witness: such a decode, called with no password argument
C5_Witness ==
  /\ call.op = "decode"
  /\ hidden.present
  /\ Truthy(hidden.password)
  /\ call.password = Undefined
  /\ ~call.result.ok

\* C6: decode with a password other than the one given to encode fails with
\* AuthenticationFailed, and so does decrypt of the blob encrypt returned for
\* the embedded message; no plaintext is returned.
C6_WrongPassword ==
  /\ (/\ call.op = "decode"
      /\ hidden.present
      /\ hidden.flipped = {}
      /\ Truthy(hidden.password)
      /\ Truthy(call.password)
      /\ call.password # hidden.password)
     => call.result = Throw("AuthenticationFailed")
  /\ (hidden.present /\ Truthy(hidden.password)) =>
       \A pw2 \in Passwords \ {Undefined, hidden.password} :
         decrypt(encrypt(hidden.message, hidden.password, hidden.salt, hidden.iv),
                 pw2) = Throw("AuthenticationFailed")

\* C6 witness: decode was called with a wrong password
C6_Witness ==
  /\ call.op = "decode"
  /\ hidden.present
  /\ Truthy(hidden.password)
  /\ Truthy(call.password)
  /\ call.password # hidden.password
  /\ ~call.result.ok

\* the embedded bits of the authentication tag and of the ciphertext
TagOrCiphertextBit(k) ==
  /\ k >= 8 * (HEADER_SIZE + SALT_LENGTH + IV_LENGTH)
  /\ k < hidden.frameBits

\* C7: after a flip of one embedded bit of the tag or of the ciphertext of an
\* image encoded with a password, decode with that password fails with
\* AuthenticationFailed.
C7_TamperDetection ==
  (/\ call.op = "decode"
   /\ hidden.present
   /\ Truthy(hidden.password)
   /\ call.password = hidden.password
   /\ \E k \in hidden.flipped : TagOrCiphertextBit(k))
  => call.result = Throw("AuthenticationFailed")

\* C7 witness: the last ciphertext bit was flipped, then decode was called
\* with the right password
C7_Witness ==
  /\ call.op = "decode"
  /\ hidden.present
  /\ Truthy(hidden.password)
  /\ call.password = hidden.password
  /\ hidden.flipped = {hidden.frameBits - 1}
  /\ hidden.frameBits > 8 * (HEADER_SIZE + SALT_LENGTH + IV_LENGTH + TAG_LENGTH)
  /\ ~call.result.ok

\* C8: two calls of encrypt with the same message and password return
\* different buffers.
C8_FreshCiphertext ==
  \A i \in 1..Len(blobs) : \A j \in 1..Len(blobs) :
    (i < j /\ blobs[i].message = blobs[j].message
     /\ blobs[i].password = blobs[j].password)
    => blobs[i].data # blobs[j].data

\* C8 witness: encrypt was called twice with the same message and password
C8_Witness ==
  /\ Len(blobs) = 2
  /\ blobs[1].message = blobs[2].message
  /\ blobs[1].password = blobs[2].password
  /\ blobs[1].message # <<>>

\* C9: decrypt with the password given to encrypt returns the plaintext:
\* the same bytes, and the same string when it has no lone surrogate.
C9_EncryptionRoundTrip ==
  (call.op = "decrypt" /\ call.password = call.blob.password) =>
    /\ call.result.ok
    /\ utf8Encode(call.result.message) = utf8Encode(call.blob.message)
    /\ WellFormed(call.blob.message) => call.result.message = call.blob.message

\* C9 witness: a 29-byte plaintext was decrypted
C9_Witness ==
  /\ call.op = "decrypt"
  /\ call.password = call.blob.password
  /\ Len(call.blob.message) = 29
  /\ call.result.ok

\* C10 as stated: the blob is salt(16) || iv(12) || authTag(16) ||
\* ciphertext, len(plaintext) + 44 bytes, and getEncryptionOverhead() is 44.
C10_BlobLayoutAsStated ==
  \A i \in 1..Len(blobs) :
       LET b == blobs[i]
           plain == utf8Encode(b.message)
           key == deriveKey(b.password, b.salt)
           ct == gcmCrypt(key, b.iv, plain)
       IN  /\ getEncryptionOverhead = 44
           /\ Len(b.data) = Len(plain) + 44
           /\ Len(b.salt) = 16
           /\ Len(b.iv) = 12
           /\ subarray(b.data, 0, 16) = b.salt
           /\ subarray(b.data, 16, 28) = b.iv
           /\ subarray(b.data, 28, 44) = gcmTag(key, b.iv, ct)
           /\ subarray(b.data, 44, Len(b.data)) = ct

\* ------------------------------------------------- properties of the frame
\* the frame of section 6 of the format for the message last embedded:
\* "CAPN", length as big-endian u32, flag, payload
HiddenPayload ==
  IF Truthy(hidden.password)
  THEN encrypt(hidden.message, hidden.password, hidden.salt, hidden.iv)
  ELSE utf8Encode(hidden.message)

HiddenFrame ==
  LET n == Len(HiddenPayload)
  IN  <<67, 65, 80, 78>>
      \o <<(n \div 16777216) % 256, (n \div 65536) % 256, (n \div 256) % 256, n % 256>>
      \o <<IF Truthy(hidden.password) THEN 1 ELSE 0>>
      \o HiddenPayload

\* bit k (0-based) of a byte sequence, each byte most significant bit first
FrameBit(bytes, k) == (bytes[(k \div 8) + 1] \div (2 ^ (7 - (k % 8)))) % 2

\* the last call was an encode that returned an image
Encoded == call.op = "encode" /\ call.result.ok

\* the raw RGBA bytes before and after the embedding of the last encode
RawIn == ensureAlphaRaw(call.input)
RawOut == call.result.imageBuffer.data

\* the raw indices (1-based) of the bytes that are not alpha bytes, in order
EligibleIndices(raw) ==
  SelectSeq([i \in 1..Len(raw) |-> i], LAMBDA i : (i - 1) % 4 # 3)

\* C11: encode leaves every alpha byte (raw index i, i mod 4 = 3) of the
\* pixel buffer as it was, and no frame bit sits in an alpha byte: the frame
\* bits are the LSBs of the first bytes that are not alpha bytes, in order.
C11_AlphaPreserved ==
  Encoded =>
    LET eligible == EligibleIndices(RawOut)
    IN  /\ \A i \in 1..Len(RawOut) : (i - 1) % 4 = 3 => RawOut[i] = RawIn[i]
        /\ Len(eligible) >= 8 * Len(HiddenFrame)
        /\ \A k \in 0..(8 * Len(HiddenFrame) - 1) :
             /\ (eligible[k + 1] - 1) % 4 # 3
             /\ RawOut[eligible[k + 1]] % 2 = FrameBit(HiddenFrame, k)

\* C11 witness: a message was embedded in a 4-channel image whose alpha bytes
\* are not all alike
C11_Witness ==
  /\ Encoded
  /\ call.input.channels = 4
  /\ call.message # <<>>
  /\ \E i, j \in 1..Len(RawIn) :
       /\ (i - 1) % 4 = 3 /\ (j - 1) % 4 = 3
       /\ RawIn[i] # RawIn[j]
       /\ RawOut[i] = RawIn[i] /\ RawOut[j] = RawIn[j]

\* the scan position (0-based) of the byte at raw index i (1-based) that is
\* not an alpha byte
ScanPosition(i) == 3 * ((i - 1) \div 4) + ((i - 1) % 4)

\* C12: for a frame of n bits, the buffer encode returns has the length of
\* the input, every byte keeps its 7 high bits, and every alpha byte and
\* every R/G/B byte at scan position n or later is the input byte.
C12_OnlyLSBsChange ==
  Encoded =>
    LET n == 8 * call.result.bytesUsed
    IN  /\ n = 8 * Len(HiddenFrame)
        /\ Len(RawOut) = Len(RawIn)
        /\ \A i \in 1..Len(RawOut) :
             /\ RawOut[i] \div 2 = RawIn[i] \div 2
             /\ ((i - 1) % 4 = 3 \/ ScanPosition(i) >= n) => RawOut[i] = RawIn[i]

\* C12 witness: an embedding that changed the LSB of a byte and left a tail
\* of R/G/B bytes with LSB 1 as well as LSB 0 behind the frame
C12_Witness ==
  /\ Encoded
  /\ \E i \in 1..Len(RawOut) : RawOut[i] # RawIn[i]
  /\ \E i, j \in 1..Len(RawOut) :
       /\ (i - 1) % 4 # 3 /\ (j - 1) % 4 # 3
       /\ ScanPosition(i) >= 8 * call.result.bytesUsed
       /\ ScanPosition(j) >= 8 * call.result.bytesUsed
       /\ RawOut[i] % 2 = 0 /\ RawOut[j] % 2 = 1

\* C13: after an encode call, whether it returned or threw, the pixel buffer
\* that was handed to the embedding is as it was before the call, and a call
\* that threw leaves the caller's image as it was.
C13_InputNotMutated ==
  call.op = "encode" =>
    /\ "rawBuffer" \in DOMAIN call.result => call.result.rawBuffer = RawIn
    /\ ~call.result.ok => image = call.input
    /\ call.result.ok => "rawBuffer" \in DOMAIN call.result

\* C13 witness: an embedding that wrote bits differing from the input's
C13_Witness ==
  /\ Encoded
  /\ call.result.rawBuffer = RawIn
  /\ RawOut # RawIn

\* byte j (0-based) of what an image carries: the LSBs at scan positions
\* 8j .. 8j+7, first bit most significant
CarriedByte(img, j) ==
  128 * ScanBit(img, 8 * j) + 64 * ScanBit(img, 8 * j + 1)
  + 32 * ScanBit(img, 8 * j + 2) + 16 * ScanBit(img, 8 * j + 3)
  + 8 * ScanBit(img, 8 * j + 4) + 4 * ScanBit(img, 8 * j + 5)
  + 2 * ScanBit(img, 8 * j + 6) + ScanBit(img, 8 * j + 7)

\* bytes from..from+n-1 (0-based) of what an image carries
CarriedBytes(img, from, n) == [j \in 1..n |-> CarriedByte(img, from + j - 1)]

\* C14: the bytes encode embeds are 43 41 50 4E, then the payload length as
\* 4 bytes big-endian, then a flag byte that is 1 when a password was given
\* and 0 otherwise, then the payload; the length field is the number of
\* payload bytes that follow, and bytesUsed counts all of them.
C14_WireFormat ==
  Encoded =>
    LET out == call.result.imageBuffer
        n == Len(HiddenPayload)
        field == CarriedBytes(out, 4, 4)
    IN  /\ call.result.bytesUsed = 9 + n
        /\ UsableBits(out) >= 8 * (9 + n)
        /\ CarriedBytes(out, 0, 4) = <<67, 65, 80, 78>>
        /\ 16777216 * field[1] + 65536 * field[2] + 256 * field[3] + field[4] = n
        /\ CarriedByte(out, 8) = (IF Truthy(call.password) THEN 1 ELSE 0)
        /\ CarriedBytes(out, 9, n) = HiddenPayload
        /\ Truthy(call.password)
             => n = Len(utf8Encode(call.message))
                    + SALT_LENGTH + IV_LENGTH + TAG_LENGTH
        /\ ~Truthy(call.password) => HiddenPayload = utf8Encode(call.message)

\* C14 witness: a frame with flag 1 and a payload of 65 bytes, and (before
\* it, on other behaviours) frames with flag 0
C14_Witness ==
  /\ Encoded
  /\ Truthy(call.password)
  /\ CarriedBytes(call.result.imageBuffer, 4, 5) = <<0, 0, 0, 65, 1>>

\* the LSB of the byte at raw RGBA index 4*floor(k/3) + (k mod 3) (0-based)
RawBit(raw, k) == raw[4 * (k \div 3) + (k % 3) + 1] % 2

\* byte j (0-based) read off a raw RGBA buffer at those indices, most
\* significant bit first
RawByte(raw, j) ==
  128 * RawBit(raw, 8 * j) + 64 * RawBit(raw, 8 * j + 1)
  + 32 * RawBit(raw, 8 * j + 2) + 16 * RawBit(raw, 8 * j + 3)
  + 8 * RawBit(raw, 8 * j + 4) + 4 * RawBit(raw, 8 * j + 5)
  + 2 * RawBit(raw, 8 * j + 6) + RawBit(raw, 8 * j + 7)

\* the (length, offset) pairs, in bytes, of the reads checked on each image
Reads == {<<9, 0>>, <<1, 9>>, <<2, 9>>, <<3, 2>>, <<0, 9>>}

\* C15: frame bit k (bytes in order, each most significant bit first) is
\* stored in the LSB of the byte at raw RGBA index 4*floor(k/3) + (k mod 3),
\* and extractData reads the LSBs at the same indices in the same order and
\* assembles bytes most significant bit first.
C15_ScanOrder ==
  /\ Encoded =>
       \A k \in 0..(8 * call.result.bytesUsed - 1) :
         /\ (4 * (k \div 3) + (k % 3)) % 4 # 3
         /\ RawBit(RawOut, k) = FrameBit(HiddenFrame, k)
  /\ LET raw == ensureAlphaRaw(image)
     IN  \A rd \in Reads :
           8 * (rd[1] + rd[2]) <= UsableBits(image) =>
             extractData(raw, rd[1], rd[2])
               = [j \in 1..rd[1] |-> RawByte(raw, rd[2] + j - 1)]
  /\ (call.op = "decode" /\ call.result.ok /\ ~call.result.metadata.encrypted) =>
       LET raw == ensureAlphaRaw(call.input)
           length == 16777216 * RawByte(raw, 4) + 65536 * RawByte(raw, 5)
                     + 256 * RawByte(raw, 6) + RawByte(raw, 7)
       IN  call.result.message
             = utf8Decode([j \in 1..length |-> RawByte(raw, 9 + j - 1)])

\* C15 witness: a message of two bytes (C3 A9) was embedded and read back by
\* decode: its bits lie at raw indices 4*floor(k/3) + (k mod 3) for
\* k = 72..87, across pixel borders
C15_Witness ==
  /\ call.op = "decode"
  /\ call.result.ok
  /\ hidden.present
  /\ ~Truthy(hidden.password)
  /\ call.input.channels = 4
  /\ Len(HiddenPayload) = 2
  /\ <<RawByte(call.input.data, 9), RawByte(call.input.data, 10)>> = HiddenPayload
  /\ HiddenPayload = <<195, 169>>

\* the image the last call, a decode, was given carries the magic bytes and
\* the four bytes of the length field
CarriesLength(img) ==
  /\ UsableBits(img) >= 64
  /\ CarriedBytes(img, 0, 4) = <<67, 65, 80, 78>>

\* the length field an image carries exceeds n (n < 2^24)
DeclaredExceeds(img, n) ==
  \/ CarriedByte(img, 4) > 0
  \/ 65536 * CarriedByte(img, 5) + 256 * CarriedByte(img, 6)
     + CarriedByte(img, 7) > n

\* C16: when the magic matches and the length the image declares exceeds its
\* availableBytes, decode fails with CorruptData and returns nothing; and
\* when decode returns the message of an unencrypted frame, the image holds
\* all the payload bytes declared and the message is made of exactly those.
C16_CorruptLength ==
  call.op = "decode" =>
    LET img == call.input
        available == getCapacity(img).availableBytes
    IN  /\ (CarriesLength(img) /\ DeclaredExceeds(img, available))
             => call.result = Throw("CorruptData")
        /\ (call.result.ok /\ ~call.result.metadata.encrypted) =>
             /\ CarriesLength(img)
             /\ ~DeclaredExceeds(img, available)
             /\ LET declared == 256 * CarriedByte(img, 6) + CarriedByte(img, 7)
                IN  /\ declared > 0 => UsableBits(img) >= 72 + 8 * declared
                    /\ call.result.message
                         = utf8Decode(CarriedBytes(img, 9, declared))

\* C16 witness: decode of an image of 81 usable bits (availableBytes 1) that
\* declares 2 payload bytes and carries 9 payload bits
C16_Witness ==
  /\ call.op = "decode"
  /\ CarriesLength(call.input)
  /\ UsableBits(call.input) = 81
  /\ CarriedBytes(call.input, 4, 5) = <<0, 0, 0, 2, 0>>
  /\ call.result = Throw("CorruptData")

\* the failure kinds of the error taxonomy
ErrorKinds ==
  {"InvalidImage", "CapacityExceeded", "NoHiddenData", "CorruptData",
   "PasswordRequired", "AuthenticationFailed"}

\* C17 as stated: every encode or decode call, on carriers with fewer than
\* 72 usable bits too, returns a result or fails with one of InvalidImage,
\* CapacityExceeded, NoHiddenData, CorruptData, PasswordRequired,
\* AuthenticationFailed.
C17_ClosedErrorSurface ==
  (call.op \in {"encode", "decode"} /\ ~call.result.ok)
  => call.result.error \in ErrorKinds

\* ------------------------------------------------ decode, statement by statement
\* the for loop of extractData as it ends: the bits pushed, and bitIndex,
\* the number of eligible bytes it went over
extractScan(imageBuffer, length, offset) ==
  extractLoop([bits |-> <<>>, bitIndex |-> 0], imageBuffer,
              length * 8, offset * 8, 0, Len(imageBuffer))

\* the call decode(image, password) begins; scanned is the number of scan
\* positions from which an LSB was read so far
DecodeBegin(password) ==
  /\ call.op \in {"none", "encode"}
  /\ call' = [op |-> "decoding", pc |-> "INIT", input |-> image,
              password |-> password, header |-> <<>>, payloadLength |-> 0,
              isEncrypted |-> FALSE, payload |-> <<>>, scanned |-> 0,
              result |-> Nothing]
  /\ UNCHANGED <<image, hidden, blobs, drawn>>

\* the magic check placed after the flag was read and the password looked at
ReadHeaderPasswordFirst ==
  /\ call.op = "decoding" /\ call.pc = "INIT"
  /\ LET rawBuffer == ensureAlphaRaw(call.input)
         header == extractData(rawBuffer, HEADER_SIZE, 0)
         scan == extractScan(rawBuffer, HEADER_SIZE, 0)
         read == [call EXCEPT !.header = header, !.scanned = Len(scan.bits)]
     IN  call' =
           IF ~magicMatches(header)
           THEN [read EXCEPT !.pc = "ERROR", !.result = Throw("NoHiddenData")]
           ELSE IF Len(header) < HEADER_SIZE
           THEN [read EXCEPT !.pc = "ERROR", !.result = Throw("RangeError")]
           ELSE IF flagEncrypted(header) /\ ~Truthy(call.password)
           THEN [read EXCEPT !.pc = "ERROR", !.result = Throw("PasswordRequired")]
           ELSE [read EXCEPT !.pc = "HEADER_READ",
                             !.payloadLength = readUInt32BE(header, 4),
                             !.isEncrypted = flagEncrypted(header)]
  /\ UNCHANGED <<image, hidden, blobs, drawn>>

\* lines 151-159: the header is extracted, the magic checked, length and
\* flag read
ReadHeader ==
  /\ call.op = "decoding" /\ call.pc = "INIT"
  /\ LET rawBuffer == ensureAlphaRaw(call.input)
         header == extractData(rawBuffer, HEADER_SIZE, 0)
         scan == extractScan(rawBuffer, HEADER_SIZE, 0)
         read == [call EXCEPT !.header = header, !.scanned = Len(scan.bits)]
     IN  call' =
           IF ~magicMatches(header)
           THEN [read EXCEPT !.pc = "ERROR", !.result = Throw("NoHiddenData")]
           ELSE IF Len(header) < HEADER_SIZE
           THEN [read EXCEPT !.pc = "ERROR", !.result = Throw("RangeError")]
           ELSE [read EXCEPT !.pc = "HEADER_READ",
                             !.payloadLength = readUInt32BE(header, 4),
                             !.isEncrypted = flagEncrypted(header)]
  /\ UNCHANGED <<image, hidden, blobs, drawn>>

\* lines 162-165: the length is checked against the capacity
ValidateLength ==
  /\ call.op = "decoding" /\ call.pc = "HEADER_READ"
  /\ call' =
       IF call.payloadLength > getCapacity(call.input).availableBytes
       THEN [call EXCEPT !.pc = "ERROR", !.result = Throw("CorruptData")]
       ELSE [call EXCEPT !.pc = "LENGTH_VALIDATED"]
  /\ UNCHANGED <<image, hidden, blobs, drawn>>

\* line 168: the payload is extracted
ReadPayload ==
  /\ call.op = "decoding" /\ call.pc = "LENGTH_VALIDATED"
  /\ LET rawBuffer == ensureAlphaRaw(call.input)
         scan == extractScan(rawBuffer, call.payloadLength, HEADER_SIZE)
     IN  call' = [call EXCEPT
                    !.pc = "PAYLOAD_READ",
                    !.payload = extractData(rawBuffer, call.payloadLength,
                                            HEADER_SIZE),
                    !.scanned = IF Len(scan.bits) > 0 THEN scan.bitIndex ELSE @]
  /\ UNCHANGED <<image, hidden, blobs, drawn>>

\* the value decode returns
DecodeResult(message, isEncrypted) ==
  [ok |-> TRUE, message |-> message,
   metadata |-> [length |-> jsLength(message), encrypted |-> isEncrypted]]

\* lines 172-179: an encrypted payload needs the password and goes to
\* decrypt, a plain one is decoded as UTF-8
RequirePassword ==
  /\ call.op = "decoding" /\ call.pc = "PAYLOAD_READ"
  /\ call' =
       IF call.isEncrypted
       THEN IF ~Truthy(call.password)
            THEN [call EXCEPT !.pc = "ERROR",
                              !.result = Throw("PasswordRequired")]
            ELSE [call EXCEPT !.pc = "DECRYPT"]
       ELSE [call EXCEPT !.pc = "DONE",
                         !.result = DecodeResult(utf8Decode(call.payload), FALSE)]
  /\ UNCHANGED <<image, hidden, blobs, drawn>>

\* line 176 and lines 181-196: decrypt returns the message or throws
DecryptPayload ==
  /\ call.op = "decoding" /\ call.pc = "DECRYPT"
  /\ LET decrypted == decrypt(call.payload, call.password)
     IN  call' =
           IF decrypted.ok
           THEN [call EXCEPT !.pc = "DONE",
                             !.result = DecodeResult(decrypted.message, TRUE)]
           ELSE [call EXCEPT !.pc = "ERROR", !.result = decrypted]
  /\ UNCHANGED <<image, hidden, blobs, drawn>>

\* SpecDecode: an encode, or none, and then a decode one statement at a time
NextDecode ==
  \/ \E message \in Messages, password \in Passwords : Encode(message, password)
  \/ \E password \in Passwords : DecodeBegin(password)
  \/ ReadHeader
  \/ ValidateLength
  \/ ReadPayload
  \/ RequirePassword
  \/ DecryptPayload

SpecDecode == Init /\ [][NextDecode]_vars

\* the moves between the states of decode that the order INIT, HEADER_READ,
\* LENGTH_VALIDATED, PAYLOAD_READ, (DECRYPT), DONE allows, the error state
\* being reachable from every step
DecodeOrder ==
  {<<"INIT", "HEADER_READ">>, <<"HEADER_READ", "LENGTH_VALIDATED">>,
   <<"LENGTH_VALIDATED", "PAYLOAD_READ">>, <<"PAYLOAD_READ", "DECRYPT">>,
   <<"PAYLOAD_READ", "DONE">>, <<"DECRYPT", "DONE">>,
   <<"INIT", "ERROR">>, <<"HEADER_READ", "ERROR">>,
   <<"LENGTH_VALIDATED", "ERROR">>, <<"PAYLOAD_READ", "ERROR">>,
   <<"DECRYPT", "ERROR">>}

\* the image being decoded carries the magic bytes
CarriesMagic(img) ==
  UsableBits(img) >= 32 /\ CarriedBytes(img, 0, 4) = <<67, 65, 80, 78>>

\* what holds in every state of a decode call
DecodeChecksInOrder ==
  call.op = "decoding" =>
    LET img == call.input
        available == getCapacity(img).availableBytes
        outOfBounds == CarriesLength(img) /\ DeclaredExceeds(img, available)
        thrown == IF call.pc = "ERROR" THEN call.result.error ELSE "none"
    IN  /\ (~CarriesMagic(img) /\ call.pc # "INIT")
             => call.result = Throw("NoHiddenData")
        /\ (CarriesMagic(img) /\ UsableBits(img) >= 72 /\ outOfBounds
            /\ call.pc \notin {"INIT", "HEADER_READ"})
             => call.result = Throw("CorruptData")
        /\ call.pc \in {"LENGTH_VALIDATED", "PAYLOAD_READ", "DECRYPT", "DONE"}
             => (CarriesMagic(img) /\ call.payloadLength <= available)
        /\ (call.pc \in {"DECRYPT", "DONE"}
            \/ thrown \in {"PasswordRequired", "AuthenticationFailed",
                           "InvalidIV", "InvalidTagLength"})
             => /\ CarriesMagic(img)
                /\ call.payloadLength <= available
                /\ Len(call.payload) = call.payloadLength
                /\ call.payload = CarriedBytes(img, 9, call.payloadLength)
        /\ (call.pc \in {"INIT", "HEADER_READ", "LENGTH_VALIDATED"}
            \/ thrown \in {"NoHiddenData", "RangeError", "CorruptData"})
             => call.scanned <= 8 * HEADER_SIZE
        /\ call.pc \in {"DONE", "ERROR"}
             => call.result = decode(img, call.password)

\* C18: decode goes through INIT, HEADER_READ, LENGTH_VALIDATED,
\* PAYLOAD_READ, (DECRYPT), DONE in that order and the first check that fails
\* decides the error: a bad magic gives NoHiddenData whatever the length; a
\* length out of bounds gives CorruptData whatever the flag and the password;
\* the password is asked for, and decrypt called, only after the length was
\* validated and the payload read; no payload bit is read before the length
\* is validated.
C18_DecodeOrder ==
  /\ []DecodeChecksInOrder
  /\ [][(call.op = "decoding" /\ call'.op = "decoding")
          => <<call.pc, call'.pc>> \in DecodeOrder]_vars

\* C18 witness: a frame with a length out of bounds and flag 1, decoded
\* without a password, ended in CorruptData
C18_Witness ==
  /\ call.op = "decoding"
  /\ call.pc = "ERROR"
  /\ UsableBits(call.input) >= 8 * HEADER_SIZE
  /\ CarriedBytes(call.input, 0, 9) = <<67, 65, 80, 78, 255, 255, 255, 255, 1>>
  /\ ~Truthy(call.password)
  /\ call.result = Throw("CorruptData")

\* one read of the first n eligible LSBs of a raw RGBA buffer (or of as many
\* as it has), in scan order
OneRead(raw, n) ==
  [k \in 1..Min(n, 3 * (Len(raw) \div 4)) |-> RawBit(raw, k - 1)]

\* the payload lengths tried on an image: the least, the greatest, and some
\* in between
ReadLengths(img) ==
  {L \in {0, 1, 28, getCapacity(img).availableBytes} :
     L <= getCapacity(img).availableBytes}

\* the bits from..to (1-based) of a sequence of bits, as far as it has them
BitsFrom(bits, from, to) == SubSeq(bits, from, Min(to, Len(bits)))

\* C19: once decode has read the header of an image (or thrown), for every L
\* up to availableBytes, the header read extractData(buffer, 9, 0) and the
\* payload read extractData(buffer, L, 9) of that image return the first
\* 72 + 8L eligible LSBs read once and split at bit 72; decode's header and
\* payload are those, and payload bit k comes from scan position 72 + k,
\* where embedData put it.
C19_ContinuousCursor ==
  /\ (/\ call.op = "decoding"
      /\ \/ call.pc = "HEADER_READ"
         \/ call.result \in {Throw("NoHiddenData"), Throw("RangeError")}) =>
     LET raw == ensureAlphaRaw(image)
     IN  \A L \in ReadLengths(image) :
           LET once == OneRead(raw, 72 + 8 * L)
           IN  /\ extractData(raw, HEADER_SIZE, 0) = bitsToBytes(BitsFrom(once, 1, 72))
               /\ extractData(raw, L, HEADER_SIZE)
                    = bitsToBytes(BitsFrom(once, 73, 72 + 8 * L))
               /\ extractScan(raw, HEADER_SIZE, 0).bits = BitsFrom(once, 1, 72)
               /\ BitsFrom(extractScan(raw, L, HEADER_SIZE).bits, 1, 8 * L)
                    = BitsFrom(once, 73, 72 + 8 * L)
               /\ UsableBits(image) >= 72 =>
                    extractData(raw, L, HEADER_SIZE)
                      = [j \in 1..L |-> RawByte(raw, 9 + j - 1)]
  /\ (call.op = "decoding" /\ call.pc \in {"PAYLOAD_READ", "DECRYPT", "DONE"}) =>
       LET raw == ensureAlphaRaw(call.input)
           once == OneRead(raw, 72 + 8 * call.payloadLength)
       IN  /\ call.header = bitsToBytes(BitsFrom(once, 1, 72))
           /\ call.payload
                = bitsToBytes(BitsFrom(once, 73, 72 + 8 * call.payloadLength))
           /\ (hidden.present /\ call.header[1] = 67 /\ Len(once) >= 72)
                => \A k \in 0..(8 * Len(HiddenPayload) - 1) :
                     /\ once[72 + k + 1] = FrameBit(HiddenPayload, k)
                     /\ FrameBit(call.payload, k) = once[72 + k + 1]

\* C19 witness: decode read the header and then the two payload bytes that
\* encode had embedded
C19_Witness ==
  /\ call.op = "decoding"
  /\ call.pc = "PAYLOAD_READ"
  /\ hidden.present
  /\ call.payloadLength = 2
  /\ call.payload = HiddenPayload
  /\ call.payload = <<65, 195>> \/ call.payload = <<195, 169>>

\* ------------------------------------------- the Jimp codec (encoder.service,
\* the decode of the decoder service, validation.service, bit.utils)
RGB_CHANNELS == 3
MESSAGE_LENGTH_BITS == 32
ENCRYPTION_FLAG_BITS == 8
HEADER_BITS == MESSAGE_LENGTH_BITS + ENCRYPTION_FLAG_BITS

\* Math.floor(a / 8)
Floor8(a) == IF a >= 0 THEN a \div 8 ELSE -((7 - a) \div 8)

calculateCapacity(width, height) ==
  LET totalBits == width * height * RGB_CHANNELS
      availableBits == totalBits - HEADER_BITS
  IN  Floor8(availableBits)

getLSB(byte) == byte % 2

setLSB(byte, bit) == (byte - (byte % 2)) + (bit % 2)

\* num.toString(2).padStart(32, '0'), as a sequence of bits; num is a buffer
\* length, below 2^31, so the first digit is 0
numberTo32BitBinary(num) ==
  [k \in 1..32 |-> IF k = 1 THEN 0 ELSE (num \div (2 ^ (32 - k))) % 2]

\* the value of the digits binary[from..to]
RECURSIVE parseInt2(_, _, _)
parseInt2(binary, from, to) ==
  IF to < from THEN 0
  ELSE 2 * parseInt2(binary, from, to - 1) + binary[to]

\* parseInt(binary.slice(0, 32), 2).  A value of 2^31 or more is represented
\* by 2^31 - 1; its only use is the comparison with maxBytes.
binaryTo32BitNumber(binary) ==
  IF Len(binary) >= 32 /\ binary[1] = 1 THEN 2147483647
  ELSE parseInt2(binary, 1, Min(32, Len(binary)))

\* one call of the scan callback of encode, at pixel p (idx = 4p): up to
\* three bits of fullBinary go to the red, green and blue bytes
encodeScanStep(st, fullBinary, p) ==
  LET n == Len(fullBinary)
      k == st.bitIndex
      r == IF k < n THEN 1 ELSE 0
      g == IF k + r < n THEN r ELSE 0
      b == IF k + r + g < n THEN g ELSE 0
  IN  [data |-> [st.data EXCEPT
                   ![4 * p + 1] = IF r = 1 THEN setLSB(@, fullBinary[k + 1]) ELSE @,
                   ![4 * p + 2] = IF g = 1 THEN setLSB(@, fullBinary[k + 2]) ELSE @,
                   ![4 * p + 3] = IF b = 1 THEN setLSB(@, fullBinary[k + 3]) ELSE @],
       bitIndex |-> k + r + g + b]

\* image.scan over the pixels lo <= p < hi, in order; pixels that come after
\* the last bit was written change nothing
RECURSIVE encodeScan(_, _, _, _)
encodeScan(st, fullBinary, lo, hi) ==
  IF hi <= lo THEN st
  ELSE IF hi = lo + 1 THEN encodeScanStep(st, fullBinary, lo)
  ELSE LET mid == (lo + hi) \div 2
           left == encodeScan(st, fullBinary, lo, mid)
       IN  IF left.bitIndex < Len(fullBinary)
           THEN encodeScan(left, fullBinary, mid, hi)
           ELSE left

\* encode(imageBuffer, message, password) of encoder.service
jimpEncode(img, message, password, salt, iv) ==
  LET isEncrypted == Truthy(password)
      dataToEncode == IF Truthy(password)
                      THEN encrypt(message, password, salt, iv)
                      ELSE utf8Encode(message)
      capacity == calculateCapacity(img.width, img.height)
      lengthBinary == numberTo32BitBinary(Len(dataToEncode))
      encryptedFlag == <<0, 0, 0, 0, 0, 0, 0, IF isEncrypted THEN 1 ELSE 0>>
      fullBinary == lengthBinary \o encryptedFlag \o bytesToBits(dataToEncode)
      scan == encodeScan([data |-> ensureAlphaRaw(img), bitIndex |-> 0],
                         fullBinary, 0, img.width * img.height)
  IN  IF Len(dataToEncode) > capacity
      THEN Throw("MessageTooLarge")
      ELSE [ok |-> TRUE,
            image |-> pngFromRaw(scan.data, img.width, img.height),
            bytesUsed |-> Len(dataToEncode),
            capacity |-> capacity]

\* the closure state of the scan callback of decode as the scan begins
DecodeScanStart ==
  [extractedBits |-> <<>>, messageLength |-> 0, isEncrypted |-> FALSE,
   headerRead |-> FALSE, bitsNeeded |-> HEADER_BITS, thrown |-> FALSE]

\* the sanity check of the callback: messageLength <= 0 ||
\* messageLength > (width * height * RGB_CHANNELS) / 8 - (HEADER_BITS / 8)
lengthInsane(messageLength, width, height) ==
  \/ messageLength <= 0
  \/ width * height * RGB_CHANNELS < HEADER_BITS
  \/ messageLength > (width * height * RGB_CHANNELS - HEADER_BITS) \div 8

\* one call of the scan callback of decode, at pixel p (idx = 4p)
decodeScanStep(st, img, p) ==
  IF st.thrown \/ Len(st.extractedBits) >= st.bitsNeeded THEN st
  ELSE
    LET r == Append(st.extractedBits, getLSB(img.data[4 * p + 1]))
        g == IF Len(r) < st.bitsNeeded
             THEN Append(r, getLSB(img.data[4 * p + 2])) ELSE r
        b == IF Len(g) < st.bitsNeeded
             THEN Append(g, getLSB(img.data[4 * p + 3])) ELSE g
        messageLength == binaryTo32BitNumber(SubSeq(b, 1, MESSAGE_LENGTH_BITS))
        insane == lengthInsane(messageLength, img.width, img.height)
    IN  IF ~st.headerRead /\ Len(b) >= HEADER_BITS
        THEN [extractedBits |-> b,
              messageLength |-> messageLength,
              isEncrypted |-> SubSeq(b, MESSAGE_LENGTH_BITS + 1, HEADER_BITS)
                                # <<0, 0, 0, 0, 0, 0, 0, 0>>,
              headerRead |-> TRUE,
              bitsNeeded |-> IF insane THEN st.bitsNeeded
                             ELSE HEADER_BITS + (messageLength * 8),
              thrown |-> insane]
        ELSE [st EXCEPT !.extractedBits = b]

\* image.scan over the pixels lo <= p < hi, in order; once the callback has
\* thrown, or has all the bits it needs, the remaining pixels change nothing
RECURSIVE decodeScan(_, _, _, _)
decodeScan(st, img, lo, hi) ==
  IF hi <= lo THEN st
  ELSE IF hi = lo + 1 THEN decodeScanStep(st, img, lo)
  ELSE LET mid == (lo + hi) \div 2
           left == decodeScan(st, img, lo, mid)
       IN  IF ~left.thrown /\ Len(left.extractedBits) < left.bitsNeeded
           THEN decodeScan(left, img, mid, hi)
           ELSE left

\* the loop that cuts messageBits into bytes: groups of fewer than 8 bits
\* are dropped
messageBytesOf(messageBits) ==
  [n \in 1..(Len(messageBits) \div 8) |->
     parseInt2(messageBits, 8 * (n - 1) + 1, 8 * n)]

\* decode(imageBuffer, password) of the decoder service
jimpDecode(img, password) ==
  LET scan == decodeScan(DecodeScanStart, img, 0, img.width * img.height)
      messageBits == SubSeq(scan.extractedBits, HEADER_BITS + 1,
                            Min(HEADER_BITS + (scan.messageLength * 8),
                                Len(scan.extractedBits)))
      messageBuffer == messageBytesOf(messageBits)
      decrypted == decrypt(messageBuffer, password)
      message == IF scan.isEncrypted THEN decrypted.message
                 ELSE utf8Decode(messageBuffer)
  IN  IF scan.thrown THEN Throw("NoValidHiddenMessage")
      ELSE IF ~scan.headerRead \/ scan.messageLength = 0
      THEN Throw("NoHiddenMessage")
      ELSE IF scan.isEncrypted /\ ~Truthy(password)
      THEN Throw("EncryptedNeedsPassword")
      ELSE IF scan.isEncrypted /\ ~decrypted.ok THEN Throw("DecryptFailed")
      ELSE [ok |-> TRUE, message |-> message,
            metadata |-> [length |-> jsLength(message),
                          encrypted |-> scan.isEncrypted]]

\* a call encode(image, message, password) of encoder.service; the image
\* returned replaces the one at hand
JimpEncodeWith(message, password, salt, iv) ==
  LET result == jimpEncode(image, message, password, salt, iv)
  IN  /\ call' = [op |-> "jimpEncode", input |-> image, message |-> message,
                  password |-> password, result |-> result]
      /\ image' = IF result.ok THEN result.image ELSE image
      /\ hidden' = IF result.ok
                   THEN [present |-> TRUE, message |-> message,
                         password |-> password, salt |-> salt, iv |-> iv,
                         frameBits |-> HEADER_BITS + 8 * result.bytesUsed,
                         flipped |-> {}]
                   ELSE hidden
      /\ UNCHANGED blobs

JimpEncode(message, password) ==
  /\ call = NoCall
  /\ IF Truthy(password)
     THEN \E salt \in SaltPool \ drawn, iv \in IvPool \ drawn :
            /\ JimpEncodeWith(message, password, salt, iv)
            /\ drawn' = drawn \cup {salt, iv}
     ELSE /\ JimpEncodeWith(message, password, <<>>, <<>>)
          /\ UNCHANGED drawn

\* a call decode(image, password) of the decoder service
JimpDecode(password) ==
  /\ call.op # "jimpDecode"
  /\ call' = [op |-> "jimpDecode", input |-> image, password |-> password,
              result |-> jimpDecode(pngFromRaw(ensureAlphaRaw(image),
                                               image.width, image.height),
                                    password)]
  /\ UNCHANGED <<image, hidden, blobs, drawn>>

\* one call of the scan callback of hasHiddenData, at pixel p (idx = 4p)
hasHiddenScanStep(extractedBits, img, p) ==
  IF Len(extractedBits) >= MESSAGE_LENGTH_BITS THEN extractedBits
  ELSE
    LET r == Append(extractedBits, getLSB(img.data[4 * p + 1]))
        g == IF Len(r) < MESSAGE_LENGTH_BITS
             THEN Append(r, getLSB(img.data[4 * p + 2])) ELSE r
    IN  IF Len(g) < MESSAGE_LENGTH_BITS
        THEN Append(g, getLSB(img.data[4 * p + 3])) ELSE g

RECURSIVE hasHiddenScan(_, _, _, _)
hasHiddenScan(extractedBits, img, lo, hi) ==
  IF hi <= lo THEN extractedBits
  ELSE IF hi = lo + 1 THEN hasHiddenScanStep(extractedBits, img, lo)
  ELSE LET mid == (lo + hi) \div 2
           left == hasHiddenScan(extractedBits, img, lo, mid)
       IN  IF Len(left) < MESSAGE_LENGTH_BITS
           THEN hasHiddenScan(left, img, mid, hi)
           ELSE left

\* hasHiddenData(imageBuffer): length > 0 && length <= maxBytes, with
\* maxBytes = (width * height * RGB_CHANNELS) / 8 - (HEADER_BITS / 8); an
\* image has at least one pixel, so extractedBits is never empty
hasHiddenData(img) ==
  LET extractedBits == hasHiddenScan(<<>>, img, 0, img.width * img.height)
      length == binaryTo32BitNumber(extractedBits)
  IN  /\ length > 0
      /\ img.width * img.height * RGB_CHANNELS >= HEADER_BITS
      /\ length <= (img.width * img.height * RGB_CHANNELS - HEADER_BITS) \div 8

\* a call hasHiddenData(image) of the decoder service
JimpHasHiddenData ==
  /\ call.op # "hasHiddenData"
  /\ call' = [op |-> "hasHiddenData", input |-> image,
              result |-> hasHiddenData(pngFromRaw(ensureAlphaRaw(image),
                                                  image.width, image.height))]
  /\ UNCHANGED <<image, hidden, blobs, drawn>>

\* SpecJimp: one encode of the Jimp codec and the decodes that follow
NextJimp ==
  \/ \E message \in Messages, password \in Passwords :
       JimpEncode(message, password)
  \/ \E password \in Passwords : JimpDecode(password)
  \/ JimpHasHiddenData

SpecJimp == Init /\ [][NextJimp]_vars

\* C20 as stated: with the Jimp codec, every non-empty message of at most
\* calculateCapacity(width, height) bytes is encoded, and decode of the image
\* returned gives the message back with encrypted = false.
C20_JimpRoundTrip ==
  /\ (/\ call.op = "jimpEncode"
      /\ ~Truthy(call.password)
      /\ call.message # <<>>
      /\ Len(utf8Encode(call.message))
           <= calculateCapacity(call.input.width, call.input.height))
     => call.result.ok
  /\ (/\ call.op = "jimpDecode"
      /\ hidden.present
      /\ ~Truthy(hidden.password)
      /\ hidden.message # <<>>)
     => /\ call.result.ok
        /\ utf8Encode(call.result.message) = utf8Encode(hidden.message)
        /\ ~call.result.metadata.encrypted

\* the image the last call, a decode, was given carries a whole header with
\* the magic and a length within its availableBytes
CarriesValidHeader(img) ==
  /\ UsableBits(img) >= 8 * HEADER_SIZE
  /\ CarriedBytes(img, 0, 4) = <<67, 65, 80, 78>>
  /\ ~DeclaredExceeds(img, getCapacity(img).availableBytes)

\* C21 as stated: decode treats a frame whose flag byte is not 0 as
\* encrypted, whatever the value: it never returns such a frame's payload as
\* a plain message.
C21_FlagNonZero ==
  (/\ call.op = "decode"
   /\ CarriesValidHeader(call.input)
   /\ CarriedByte(call.input, 8) # 0
   /\ call.result.ok)
  => call.result.metadata.encrypted

\* C22: on a carrier with fewer than 72 usable bits getCapacity reports 0
\* available bytes and encode fails for every payload, the empty one
\* included, leaving the image as it was; and every image encode returns
\* carries all 72 + 8*len bits of its frame.
C22_TooSmallForHeader ==
  call.op = "encode" =>
    /\ UsableBits(call.input) < 8 * HEADER_SIZE =>
         /\ getCapacity(call.input).availableBytes = 0
         /\ ~call.result.ok
         /\ image = call.input
    /\ call.result.ok =>
         /\ UsableBits(call.result.imageBuffer) >= 8 * Len(HiddenFrame)
         /\ CarriedBytes(call.result.imageBuffer, 0, Len(HiddenFrame)) = HiddenFrame

\* C22 witness: the empty payload was refused on a carrier of 69 usable bits
C22_Witness ==
  /\ call.op = "encode"
  /\ UsableBits(call.input) = 69
  /\ call.message = <<>>
  /\ ~Truthy(call.password)
  /\ ~call.result.ok
  /\ image = call.input

\* ----------------------------------------------- calls running concurrently
\* a call of getCapacity, encode (without password) or decode that has
\* begun: its arguments, where it stands, and its local variables
NewCall(fn, input, message, password) ==
  [fn |-> fn, input |-> input, message |-> message, password |-> password,
   pc |-> "start", payload |-> <<>>, header |-> <<>>,
   capacity |-> [totalCapacity |-> 0, availableBytes |-> 0],
   rawBuffer |-> <<>>, modifiedBuffer |-> <<>>, result |-> Nothing]

\* the capacity is kept from the call that asked first
advanceCached(c) ==
  IF c.fn = "getCapacity" THEN
    IF c.pc = "start" THEN [c EXCEPT !.pc = "metadata"]
    ELSE [c EXCEPT !.pc = "done", !.result = getCapacity(c.input)]
  ELSE IF c.fn = "encode" THEN
    IF c.pc = "start"
    THEN [c EXCEPT !.pc = "capacity", !.payload = utf8Encode(c.message)]
    ELSE IF c.pc = "capacity"
    THEN LET capacity == getCapacity(call.calls[1].input)
         IN  IF tooLarge(Len(c.payload), capacity.availableBytes)
             THEN [c EXCEPT !.pc = "done", !.capacity = capacity,
                            !.result = [ok |-> FALSE, error |-> "CapacityExceeded",
                                        required |-> Len(c.payload),
                                        available |-> capacity.availableBytes]]
             ELSE [c EXCEPT !.pc = "metadata", !.capacity = capacity,
                            !.header = MAGIC_HEADER \o writeUInt32BE(Len(c.payload))
                                       \o <<0>>]
    ELSE IF c.pc = "metadata" THEN [c EXCEPT !.pc = "raw"]
    ELSE IF c.pc = "raw"
    THEN LET rawBuffer == ensureAlphaRaw(c.input)
             modified == embedData(rawBuffer, c.header \o c.payload)
         IN  IF ~modified.ok
             THEN [c EXCEPT !.pc = "done", !.rawBuffer = modified.imageBuffer,
                            !.result = [ok |-> FALSE, error |-> modified.error,
                                        rawBuffer |-> modified.imageBuffer]]
             ELSE [c EXCEPT !.pc = "png", !.rawBuffer = modified.imageBuffer,
                            !.modifiedBuffer = modified.buffer]
    ELSE [c EXCEPT !.pc = "done",
                   !.result = [ok |-> TRUE,
                               imageBuffer |-> pngFromRaw(c.modifiedBuffer,
                                                          c.input.width,
                                                          c.input.height),
                               bytesUsed |-> Len(c.header) + Len(c.payload),
                               capacity |-> c.capacity.availableBytes,
                               rawBuffer |-> c.rawBuffer]]
  ELSE
    IF c.pc = "start" THEN [c EXCEPT !.pc = "metadata"]
    ELSE IF c.pc = "metadata"
    THEN LET rawBuffer == ensureAlphaRaw(c.input)
             header == extractData(rawBuffer, HEADER_SIZE, 0)
             read == [c EXCEPT !.rawBuffer = rawBuffer, !.header = header]
         IN  IF ~magicMatches(header)
             THEN [read EXCEPT !.pc = "done", !.result = Throw("NoHiddenData")]
             ELSE IF Len(header) < HEADER_SIZE
             THEN [read EXCEPT !.pc = "done", !.result = Throw("RangeError")]
             ELSE [read EXCEPT !.pc = "capacity"]
    ELSE LET capacity == getCapacity(call.calls[1].input)
             payloadLength == readUInt32BE(c.header, 4)
             isEncrypted == flagEncrypted(c.header)
             payload == extractData(c.rawBuffer, payloadLength, HEADER_SIZE)
             decrypted == decrypt(payload, c.password)
             done == [c EXCEPT !.pc = "done", !.capacity = capacity]
         IN  IF payloadLength > capacity.availableBytes
             THEN [done EXCEPT !.result = Throw("CorruptData")]
             ELSE IF isEncrypted /\ ~Truthy(c.password)
             THEN [done EXCEPT !.result = Throw("PasswordRequired")]
             ELSE IF isEncrypted /\ ~decrypted.ok
             THEN [done EXCEPT !.result = decrypted]
             ELSE IF isEncrypted
             THEN [done EXCEPT !.payload = payload,
                               !.result = DecodeResult(decrypted.message, TRUE)]
             ELSE [done EXCEPT !.payload = payload,
                               !.result = DecodeResult(utf8Decode(payload), FALSE)]

\* a call runs from one await to the next.  getCapacity: await metadata.
\* encode: await getCapacity, await metadata, await raw toBuffer, await png
\* toBuffer.  decode: await metadata, await raw toBuffer, await getCapacity.
advance(c) ==
  IF c.fn = "getCapacity" THEN
    IF c.pc = "start" THEN [c EXCEPT !.pc = "metadata"]
    ELSE [c EXCEPT !.pc = "done", !.result = getCapacity(c.input)]
  ELSE IF c.fn = "encode" THEN
    IF c.pc = "start"
    THEN [c EXCEPT !.pc = "capacity", !.payload = utf8Encode(c.message)]
    ELSE IF c.pc = "capacity"
    THEN LET capacity == getCapacity(c.input)
         IN  IF tooLarge(Len(c.payload), capacity.availableBytes)
             THEN [c EXCEPT !.pc = "done", !.capacity = capacity,
                            !.result = [ok |-> FALSE, error |-> "CapacityExceeded",
                                        required |-> Len(c.payload),
                                        available |-> capacity.availableBytes]]
             ELSE [c EXCEPT !.pc = "metadata", !.capacity = capacity,
                            !.header = MAGIC_HEADER \o writeUInt32BE(Len(c.payload))
                                       \o <<0>>]
    ELSE IF c.pc = "metadata" THEN [c EXCEPT !.pc = "raw"]
    ELSE IF c.pc = "raw"
    THEN LET rawBuffer == ensureAlphaRaw(c.input)
             modified == embedData(rawBuffer, c.header \o c.payload)
         IN  IF ~modified.ok
             THEN [c EXCEPT !.pc = "done", !.rawBuffer = modified.imageBuffer,
                            !.result = [ok |-> FALSE, error |-> modified.error,
                                        rawBuffer |-> modified.imageBuffer]]
             ELSE [c EXCEPT !.pc = "png", !.rawBuffer = modified.imageBuffer,
                            !.modifiedBuffer = modified.buffer]
    ELSE [c EXCEPT !.pc = "done",
                   !.result = [ok |-> TRUE,
                               imageBuffer |-> pngFromRaw(c.modifiedBuffer,
                                                          c.input.width,
                                                          c.input.height),
                               bytesUsed |-> Len(c.header) + Len(c.payload),
                               capacity |-> c.capacity.availableBytes,
                               rawBuffer |-> c.rawBuffer]]
  ELSE
    IF c.pc = "start" THEN [c EXCEPT !.pc = "metadata"]
    ELSE IF c.pc = "metadata"
    THEN LET rawBuffer == ensureAlphaRaw(c.input)
             header == extractData(rawBuffer, HEADER_SIZE, 0)
             read == [c EXCEPT !.rawBuffer = rawBuffer, !.header = header]
         IN  IF ~magicMatches(header)
             THEN [read EXCEPT !.pc = "done", !.result = Throw("NoHiddenData")]
             ELSE IF Len(header) < HEADER_SIZE
             THEN [read EXCEPT !.pc = "done", !.result = Throw("RangeError")]
             ELSE [read EXCEPT !.pc = "capacity"]
    ELSE LET capacity == getCapacity(c.input)
             payloadLength == readUInt32BE(c.header, 4)
             isEncrypted == flagEncrypted(c.header)
             payload == extractData(c.rawBuffer, payloadLength, HEADER_SIZE)
             decrypted == decrypt(payload, c.password)
             done == [c EXCEPT !.pc = "done", !.capacity = capacity]
         IN  IF payloadLength > capacity.availableBytes
             THEN [done EXCEPT !.result = Throw("CorruptData")]
             ELSE IF isEncrypted /\ ~Truthy(c.password)
             THEN [done EXCEPT !.result = Throw("PasswordRequired")]
             ELSE IF isEncrypted /\ ~decrypted.ok
             THEN [done EXCEPT !.result = decrypted]
             ELSE IF isEncrypted
             THEN [done EXCEPT !.payload = payload,
                               !.result = DecodeResult(decrypted.message, TRUE)]
             ELSE [done EXCEPT !.payload = payload,
                               !.result = DecodeResult(utf8Decode(payload), FALSE)]

\* the carriers of the concurrent calls: the shared one is any of the first
\* three, a call may also be given the fourth
ConcurrentCarriers ==
  {Picture(9, 3, 4, "capn"), Picture(5, 6, 3, "noise"), Picture(4, 6, 3, "flat")}

OtherCarrier == Picture(10, 10, 3, "flat")

\* the calls that may be made on an input
Invocations(input) ==
  {NewCall("getCapacity", input, <<>>, Undefined)}
  \cup {NewCall("encode", input, message, Undefined) :
          message \in {<<>>, <<65>>, <<65, 233>>}}
  \cup {NewCall("decode", input, <<>>, password) :
          password \in {Undefined, <<97>>}}

\* two calls begin, each on the shared image or on another one
StartCalls ==
  /\ call = NoCall
  /\ \E c1 \in Invocations(image) \cup Invocations(OtherCarrier),
        c2 \in Invocations(image) \cup Invocations(OtherCarrier) :
       call' = [op |-> "concurrent", shared |-> image, calls |-> <<c1, c2>>]
  /\ UNCHANGED <<image, hidden, blobs, drawn>>

\* the event loop resumes call i, which runs to its next await
Resume(i) ==
  /\ call.op = "concurrent"
  /\ call.calls[i].pc # "done"
  /\ call' = [call EXCEPT !.calls[i] = advance(call.calls[i])]
  /\ UNCHANGED <<image, hidden, blobs, drawn>>

InitConcurrent ==
  /\ image \in ConcurrentCarriers
  /\ hidden = Nothing
  /\ call = NoCall
  /\ blobs = <<>>
  /\ drawn = {}

NextConcurrent ==
  \/ StartCalls
  \/ \E i \in {1, 2} : Resume(i)

SpecConcurrent == InitConcurrent /\ [][NextConcurrent]_vars

\* what a call returns when it runs alone
Alone(c) ==
  IF c.fn = "getCapacity" THEN getCapacity(c.input)
  ELSE IF c.fn = "encode" THEN encode(c.input, c.message, Undefined, <<>>, <<>>)
  ELSE decode(c.input, c.password)

\* C23: whatever the order in which the steps of two concurrent calls run,
\* on the same input or on different ones, a call that has returned has
\* returned what it returns when run alone, and the shared input is as it
\* was.
C23_CallsIndependent ==
  call.op = "concurrent" =>
    /\ image = call.shared
    /\ \A i \in {1, 2} :
         /\ call.calls[i].pc = "done" => call.calls[i].result = Alone(call.calls[i])
         /\ call.calls[i].input \in {call.shared, OtherCarrier}

\* C23 witness: an encode and a decode of the same image both returned, the
\* decode having begun first and ended last
C23_Witness ==
  /\ call.op = "concurrent"
  /\ call.calls[1].fn = "decode" /\ call.calls[2].fn = "encode"
  /\ call.calls[1].input = image /\ call.calls[2].input = image
  /\ call.calls[1].pc = "done" /\ call.calls[2].pc = "done"
  /\ call.calls[1].result.ok /\ call.calls[2].result.ok

\* getCapacity(imageBuffer) of encoder.service; totalBits stands for
\* totalBytes = totalBits / 8, which need not be whole
jimpGetCapacity(width, height) ==
  LET availableBytes == calculateCapacity(width, height)
      encryptionOverhead == getEncryptionOverhead
  IN  [totalBits |-> width * height * 3,
       availableBytes |-> availableBytes,
       maxMessageLength |-> availableBytes - encryptionOverhead]

\* C24: with a password, the bytes compared with availableBytes and written
\* in the length field are those of the encrypted blob, the plaintext's
\* plus the salt+iv+tag overhead: encode succeeds exactly when
\* len(plaintext) + overhead <= availableBytes, fails with CapacityExceeded
\* (required = len + overhead) otherwise, and the largest message that can be
\* encrypted has availableBytes - overhead bytes; so it is with the Jimp
\* encoder and the maxMessageLength its getCapacity reports.
C24_OverheadCounts ==
  (call.op = "encode" /\ Truthy(call.password)) =>
    LET len == Len(utf8Encode(call.message))
        overhead == getEncryptionOverhead
        available == getCapacity(call.input).availableBytes
        jimp == jimpGetCapacity(call.input.width, call.input.height)
    IN  /\ call.result.ok <=> len + overhead <= available
        /\ call.result.ok <=> len <= available - overhead
        /\ call.result.ok =>
             /\ Len(HiddenPayload) = len + overhead
             /\ CarriedBytes(call.result.imageBuffer, 4, 4)
                  = <<0, 0, 0, len + overhead>>
             /\ call.result.bytesUsed = HEADER_SIZE + len + overhead
        /\ ~call.result.ok =>
             call.result = [ok |-> FALSE, error |-> "CapacityExceeded",
                            required |-> len + overhead, available |-> available]
        /\ jimp.maxMessageLength = jimp.availableBytes - overhead
        /\ jimpEncode(call.input, call.message, call.password,
                      SaltValue(1), IvValue(1)).ok
             <=> len <= jimp.maxMessageLength

\* C24 witness: a message of availableBytes - overhead bytes, 2 of 66, was
\* encrypted and embedded
C24_Witness ==
  /\ call.op = "encode"
  /\ Truthy(call.password)
  /\ call.result.ok
  /\ Len(utf8Encode(call.message)) = 2
  /\ getCapacity(call.input).availableBytes = 2 + getEncryptionOverhead

\* the frame an image carries is flagged encrypted (flag byte 1) and declares
\* n payload bytes
CarriesEncrypted(img, n) ==
  /\ CarriesValidHeader(img)
  /\ CarriedByte(img, 8) = 1
  /\ CarriedBytes(img, 4, 4) = <<0, 0, 0, n>>

\* C25: decode, with a password, of a frame flagged encrypted whose declared
\* length is below the salt+iv+tag prefix fails with AuthenticationFailed,
\* never with another kind of error and never with a plaintext.
C25_ShortBlobRejected ==
  (/\ call.op = "decode"
   /\ Truthy(call.password)
   /\ \E n \in 0..(SALT_LENGTH + IV_LENGTH + TAG_LENGTH - 1) :
        CarriesEncrypted(call.input, n))
  => call.result = Throw("AuthenticationFailed")

\* C26: after one of the 72 embedded header bits of an encoded carrier was
\* flipped, decode with the password the message was encoded with either
\* fails or returns the message that was encoded.
C26_HeaderIntegrity ==
  (/\ call.op = "decode"
   /\ hidden.present
   /\ hidden.flipped # {}
   /\ hidden.flipped \subseteq 0..(8 * HEADER_SIZE - 1)
   /\ call.password = hidden.password)
  => (call.result.ok => call.result.message = hidden.message)

\* C27: the empty string is no password. encode(img, P, "") does what
\* encode(img, P) does: flag byte 0 and the UTF-8 bytes of P as payload, and
\* so does the Jimp encoder; decode with "" of a frame flagged encrypted fails
\* with PasswordRequired, decryption is not attempted.
C27_EmptyPasswordIsNone ==
  /\ (call.op = "encode" /\ call.password = <<>>) =>
       /\ call.result
            = encode(call.input, call.message, Undefined, <<>>, <<>>)
       /\ call.result.ok =>
            /\ CarriedByte(call.result.imageBuffer, 8) = 0
            /\ HiddenPayload = utf8Encode(call.message)
            /\ CarriedBytes(call.result.imageBuffer, HEADER_SIZE,
                            Len(utf8Encode(call.message)))
                 = utf8Encode(call.message)
       /\ jimpEncode(call.input, call.message, <<>>, SaltValue(1), IvValue(1))
            = jimpEncode(call.input, call.message, Undefined, <<>>, <<>>)
  /\ (/\ call.op = "decode"
      /\ call.password = <<>>
      /\ CarriesValidHeader(call.input)
      /\ CarriedByte(call.input, 8) = 1)
     => call.result = Throw("PasswordRequired")

\* C27 witness: a non-empty message was encoded with the password ""
C27_Witness ==
  /\ call.op = "encode"
  /\ call.password = <<>>
  /\ call.message # <<>>
  /\ call.result.ok
  /\ CarriedByte(call.result.imageBuffer, 8) = 0

\* C27, the other case: an image encoded with a password was decoded with ""
C27_WitnessDecode ==
  /\ call.op = "decode"
  /\ call.password = <<>>
  /\ hidden.present
  /\ Truthy(hidden.password)
  /\ ~call.result.ok

\* ------------------------------------------------- encode over an encode
\* a second call encode(image, message), without password, on the image the
\* first encode returned
EncodeAgain(message) ==
  /\ call.op = "encode"
  /\ call.result.ok
  /\ ~Truthy(call.password)
  /\ LET result == encode(image, message, Undefined, <<>>, <<>>)
     IN  /\ call' = [op |-> "encodeAgain", input |-> image,
                     first |-> call.message, message |-> message,
                     password |-> Undefined, result |-> result]
         /\ image' = IF result.ok THEN result.imageBuffer ELSE image
         /\ hidden' = IF result.ok
                      THEN [present |-> TRUE, message |-> message,
                            password |-> Undefined, salt |-> <<>>, iv |-> <<>>,
                            frameBits |-> 8 * result.bytesUsed, flipped |-> {},
                            first |-> call.message]
                      ELSE hidden
  /\ UNCHANGED <<blobs, drawn>>

TwiceCarriers ==
  {Picture(9, 3, 4, "capn"), Picture(5, 6, 3, "noise"),
   Picture(10, 10, 3, "flat")}

InitTwice ==
  /\ image \in TwiceCarriers
  /\ hidden = Nothing
  /\ call = NoCall
  /\ blobs = <<>>
  /\ drawn = {}

NextTwice ==
  \/ \E message \in Messages : Encode(message, Undefined)
  \/ \E message \in Messages : EncodeAgain(message)
  \/ \E password \in {Undefined, <<97>>} : Decode(password)

SpecTwice == InitTwice /\ [][NextTwice]_vars

\* the image holds the frame of a second encode, made over a first one
EncodedTwice == hidden.present /\ "first" \in DOMAIN hidden

\* C28: the last write wins. After encode(encode(img, P1), P2) without
\* password, decode returns P2 whatever the lengths of P1 and P2, and when
\* P1 = P2 the second encode changes no byte of the pixel buffer.
C28_LastWriteWins ==
  /\ (call.op = "decode" /\ EncodedTwice) =>
       /\ call.result.ok
       /\ utf8Encode(call.result.message) = utf8Encode(hidden.message)
       /\ WellFormed(hidden.message) => call.result.message = hidden.message
       /\ ~call.result.metadata.encrypted
  /\ (call.op = "encodeAgain" /\ call.result.ok) =>
       /\ extractData(ensureAlphaRaw(call.result.imageBuffer),
                      Len(utf8Encode(call.message)), HEADER_SIZE)
            = utf8Encode(call.message)
       /\ call.first = call.message =>
            /\ ensureAlphaRaw(call.result.imageBuffer)
                 = ensureAlphaRaw(call.input)
            /\ call.result.imageBuffer = call.input

\* C28 witness: a 1-byte message was written over a 28-byte one and decode
\* returned the 1-byte message
C28_Witness ==
  /\ call.op = "decode"
  /\ EncodedTwice
  /\ Len(hidden.first) = 28
  /\ Len(hidden.message) = 1
  /\ call.result.ok
  /\ call.result.message = hidden.message

\* C28, the idempotent case: the same non-empty message was encoded twice
C28_WitnessSame ==
  /\ call.op = "encodeAgain"
  /\ call.result.ok
  /\ call.first = call.message
  /\ call.message # <<>>

\* --------------------------------- the two versions of validation.service
\* calculateCapacity of the version that reserves 32 bits, the length field
\* only
calculateCapacityLegacy(width, height) ==
  LET totalBits == width * height * 3
      availableBits == totalBits - 32
  IN  Floor8(availableBits)

\* the repository holds both versions of validation.service and the encoder
\* imports only validateImage and calculateCapacity, which both export
Links == {"reserves32", "reserves40"}

calculateCapacityOf(link, width, height) ==
  IF link = "reserves32"
  THEN calculateCapacityLegacy(width, height)
  ELSE calculateCapacity(width, height)

\* encode(imageBuffer, message, password) of encoder.service, built with one
\* of the two versions; bitIndex is the scan's counter when the scan ends
jimpEncodeLinked(link, img, message, password, salt, iv) ==
  LET isEncrypted == Truthy(password)
      dataToEncode == IF Truthy(password)
                      THEN encrypt(message, password, salt, iv)
                      ELSE utf8Encode(message)
      capacity == calculateCapacityOf(link, img.width, img.height)
      lengthBinary == numberTo32BitBinary(Len(dataToEncode))
      encryptedFlag == <<0, 0, 0, 0, 0, 0, 0, IF isEncrypted THEN 1 ELSE 0>>
      fullBinary == lengthBinary \o encryptedFlag \o bytesToBits(dataToEncode)
      scan == encodeScan([data |-> ensureAlphaRaw(img), bitIndex |-> 0],
                         fullBinary, 0, img.width * img.height)
  IN  IF Len(dataToEncode) > capacity
      THEN Throw("MessageTooLarge")
      ELSE [ok |-> TRUE,
            image |-> pngFromRaw(scan.data, img.width, img.height),
            bytesUsed |-> Len(dataToEncode),
            capacity |-> capacity,
            bitIndex |-> scan.bitIndex,
            frameBits |-> Len(fullBinary)]

JimpEncodeLinkedWith(link, message, password, salt, iv) ==
  LET result == jimpEncodeLinked(link, image, message, password, salt, iv)
  IN  /\ call' = [op |-> "jimpEncodeLinked", link |-> link, input |-> image,
                  message |-> message, password |-> password,
                  result |-> result]
      /\ image' = IF result.ok THEN result.image ELSE image
      /\ hidden' = IF result.ok
                   THEN [present |-> TRUE, message |-> message,
                         password |-> password, salt |-> salt, iv |-> iv,
                         frameBits |-> result.frameBits, flipped |-> {}]
                   ELSE hidden
      /\ UNCHANGED blobs

JimpEncodeLinked(link, message, password) ==
  /\ call = NoCall
  /\ IF Truthy(password)
     THEN \E salt \in SaltPool \ drawn, iv \in IvPool \ drawn :
            /\ JimpEncodeLinkedWith(link, message, password, salt, iv)
            /\ drawn' = drawn \cup {salt, iv}
     ELSE /\ JimpEncodeLinkedWith(link, message, password, <<>>, <<>>)
          /\ UNCHANGED drawn

NextJimpLink ==
  \E link \in Links, message \in Messages, password \in Passwords :
    JimpEncodeLinked(link, message, password)

SpecJimpLink == Init /\ [][NextJimpLink]_vars

\* C29 as stated: whenever the Jimp encoder accepts a message, its scan
\* embeds all 40 + 8*len frame bits, and the capacity it checked against is at
\* most floor((width*height*3 - 40) / 8).
C29_NoSilentTruncation ==
  (call.op = "jimpEncodeLinked" /\ call.result.ok) =>
    /\ call.result.frameBits = HEADER_BITS + 8 * call.result.bytesUsed
    /\ call.result.bitIndex = call.result.frameBits
    /\ call.result.capacity
         <= Floor8(call.input.width * call.input.height * 3 - 40)

\* with the version that reserves 40 bits the claim holds
C29_Reserves40 ==
  (call.op = "jimpEncodeLinked" /\ call.link = "reserves40")
    => C29_NoSilentTruncation

\* the length the first 32 LSBs of an image declare, for an image with at
\* least 32 usable bits
JimpDeclared(img) == binaryTo32BitNumber(ScanBits(img, MESSAGE_LENGTH_BITS))

\* a declared length the decoder accepts: 0 < length <= w*h*3/8 - 5
JimpAccepted(img) ==
  /\ UsableBits(img) >= MESSAGE_LENGTH_BITS
  /\ JimpDeclared(img) > 0
  /\ UsableBits(img) >= HEADER_BITS
  /\ JimpDeclared(img) <= (UsableBits(img) - HEADER_BITS) \div 8

JimpNoMessage ==
  call.result \in {Throw("NoValidHiddenMessage"), Throw("NoHiddenMessage")}

\* C30 as stated: the Jimp decoder never returns an empty message; a
\* declared length of 0 or above w*h*3/8 - 5, and an image with fewer than
\* 40 usable bits, make decode fail with a no-hidden-message error, and
\* hasHiddenData is true exactly when the first 32 LSBs declare an accepted
\* length.
C30_NeverEmpty ==
  /\ (call.op = "jimpDecode" /\ call.result.ok) => call.result.message # <<>>
  /\ (call.op = "jimpDecode" /\ ~JimpAccepted(call.input)) => JimpNoMessage
  /\ (call.op = "jimpDecode" /\ UsableBits(call.input) < HEADER_BITS)
       => JimpNoMessage
  /\ call.op = "hasHiddenData" => (call.result <=> JimpAccepted(call.input))

\* the parts of C30 about rejected headers and hasHiddenData hold
C30_RejectedHeaders ==
  /\ (call.op = "jimpDecode" /\ ~JimpAccepted(call.input)) => JimpNoMessage
  /\ (call.op = "jimpDecode" /\ UsableBits(call.input) < HEADER_BITS)
       => JimpNoMessage
  /\ call.op = "hasHiddenData" => (call.result <=> JimpAccepted(call.input))

====
